---------------------------- MODULE Spec2Model ----------------------------
(***************************************************************************)
(* Verification model of geo_admin_areas: the Overpass fetch client        *)
(* (lib/overpass.ts), the row transformer (lib/transform.ts) and the       *)
(* backup run (commands/backup.ts).                                        *)
(*                                                                         *)
(* The specifications of the module:                                      *)
(*   SpecFetch     one call of fetchOverpass, one action per awaited step  *)
(*   SpecRows      overpassToRows                                          *)
(*   SpecMerge     the chunk merge loop of runBackup                       *)
(*   Spec          runBackup runs over one output directory, with external *)
(*                 termination of the process                              *)
(*   SpecFallback  one iteration of the level loop, for every admin level  *)
(*   SpecCatalog   loadCountryLevelsCatalog over the contents of the file  *)
(*   SpecLocal     the country list of a run, over the contents of         *)
(*                 countries.json                                          *)
(*   SpecPace      one run with and without --delay-ms, on an empty and on *)
(*                 a partly filled directory                               *)
(*   SpecSerial    consecutive fetchOverpass calls, the sending of a       *)
(*                 request and the settling of its promise as two steps    *)
(*   SpecServe     the request handler of runServer over a data directory  *)
(***************************************************************************)
EXTENDS Integers, Sequences, FiniteSets, TLC

VARIABLES
    \* ---- fetchOverpass (lib/overpass.ts) ----
    fetchPc,        \* "attempt" | "awaiting" | "backoff" | "returned" |
                    \* "thrown" | "off"
    endpointIdx,    \* position of the outer loop in OVERPASS_ENDPOINTS
    attempt,        \* position of the inner loop, 1..3
    lastError,      \* the lastError local
    lastResponse,   \* the response the latest attempt received
    requests,       \* history: every request issued, in order
    sleeps,         \* history: every backoff sleep, in order
    fetchResult,    \* the value returned, or NoResult
    inflight,       \* the requests sent whose promise has not settled
    calls,          \* history: how many fetchOverpass calls were started
    \* ---- overpassToRows (lib/transform.ts) and the chunk merge ----
    rowsPc,         \* "call" | "merge" | "done" | "off"
    payload,        \* the overpassPayload argument of the call in progress
    rows,           \* the rows returned / the merged rows of the chunk loop
    rowsByKey,      \* the Map of the chunk loop, in insertion order
    chunkRows,      \* history: partRows of every chunk processed, in order
    \* ---- runBackup (commands/backup.ts) ----
    pc,             \* where the run stands; "idle" when no process runs
    opts,           \* the BackupOptions of the run
    now,            \* the clock isoUtcNow reads (seconds)
    disk,           \* the files of the output directory
    run,            \* the locals of runBackup
    hist,           \* history: what the runs did so far
    \* ---- runServer (commands/serve.ts) ----
    served          \* the request handled last and the response to it

fetchVars == << fetchPc, endpointIdx, attempt, lastError, lastResponse,
                requests, sleeps, fetchResult, inflight, calls >>

rowVars == << rowsPc, payload, rows, rowsByKey, chunkRows >>

runVars == << pc, opts, now, disk, run, hist >>

serveVars == << served >>

vars == << fetchPc, endpointIdx, attempt, lastError, lastResponse,
           requests, sleeps, fetchResult, inflight, calls,
           rowsPc, payload, rows, rowsByKey, chunkRows,
           pc, opts, now, disk, run, hist, served >>

\* null / undefined of the source: where a string, a number, a geometry, a
\* point or an id is expected
Null == "null"

NoNumber == -1

NoPoint == [ type |-> Null, coordinates |-> << >> ]

(***************************************************************************)
(* The output directory and the locals of runBackup                        *)
(***************************************************************************)
MaxRuns == 2

MaxKills == 1

MaxParents == 2

MaxLevel == 10

\* The country codes and admin levels of the modelled world.
Countries == {"EE", "LV"}

LevelsUniverse == {2, 9}

Targets == Countries \X LevelsUniverse

\* --countries / --levels as parsed by the command line
CountryArgs == { << >>, << "ee", "LV" >> }

LevelArgs == { << >>, << 2, 9 >> }

\* What the discovery queries can answer: extractCountryCodes and
\* extractAdminLevels return sorted lists without duplicates.
CountryAnswers == { << >>, << "EE", "LV" >> }

LevelAnswers == { << >>, << 2, 9 >> }

\* A file of the output directory.  st is "none" when the file does not
\* exist, "partial" when it holds a truncated text (a write that did not
\* finish) and "full" when it holds a complete serialized record; enc tells
\* plain text from gzip.
NoFile ==
    [ st |-> "none", enc |-> "utf8", created_at |-> 0, refreshed_at |-> 0,
      chunked |-> FALSE ]

TruncatedFile ==
    [ st |-> "partial", enc |-> "utf8", created_at |-> 0, refreshed_at |-> 0,
      chunked |-> FALSE ]

\* `${JSON.stringify(payload, null, 2)}\n` of a BackupPayload
BackupJson(createdAt, refreshedAt, chunked) ==
    [ st |-> "full", enc |-> "utf8", created_at |-> createdAt,
      refreshed_at |-> refreshedAt, chunked |-> chunked ]

\* gzipSync(content, { level: 9 }) and its inverse
gzipSync_plain(content) == content
gzipSync(content) == [ content EXCEPT !.enc = "gzip" ]

gunzipSync(buffer) == [ buffer EXCEPT !.enc = "utf8" ]

\* A write that was cut short leaves a prefix of the bytes.
Truncate(content) == [ TruncatedFile EXCEPT !.enc = content.enc ]

\* The empty Record<string, number[]>: a map from country keys to level lists.
NoLevels == [ c \in {} |-> << >> ]

\* levelsByCountry[countryCode], with Array.isArray of it as the field known.
Entry(levelsByCountry, countryCode) ==
    IF countryCode \in DOMAIN levelsByCountry
    THEN [ known |-> TRUE, levels |-> levelsByCountry[countryCode] ]
    ELSE [ known |-> FALSE, levels |-> << >> ]

\* levelsByCountry[countryCode] = levels
SetEntry(levelsByCountry, countryCode, levels) ==
    [ c \in DOMAIN levelsByCountry \cup {countryCode} |->
        IF c = countryCode THEN levels ELSE levelsByCountry[c] ]

NoCountriesFile ==
    [ st |-> "none", created_at |-> 0, refreshed_at |-> 0, codes |-> << >> ]

\* country-levels.json: st is "none" (no file), "unreadable", "partial" (not
\* parsable) or "full"; levels_by_country is the list of the (key, value)
\* entries of that object in the order of Object.entries, a value being an
\* array of JSON values or something else.
NoCatalogFile ==
    [ st |-> "none", created_at |-> 0, refreshed_at |-> 0,
      levels_by_country |-> << >> ]

\* A JSON value as Number(v) sees it: an integer, another number, or a value
\* that converts to NaN.
JsonInt(n) == [ kind |-> "int", n |-> n ]

JsonFraction == [ kind |-> "fraction", n |-> 0 ]

JsonNaN == [ kind |-> "nan", n |-> 0 ]

\* A string that holds the decimal digits of n.
JsonNumericString(n) == [ kind |-> "numeric string", n |-> n ]

CatalogEntry(key, items) == [ key |-> key, array |-> TRUE, items |-> items ]

NotAnArray(key) == [ key |-> key, array |-> FALSE, items |-> << >> ]

EmptyDiskOver(targets) ==
    [ dir |-> FALSE,
      json |-> [ t \in targets |-> NoFile ],
      gz |-> [ t \in targets |-> NoFile ],
      raw |-> [ t \in targets |-> FALSE ],
      parts |-> [ t \in targets |-> {} ],
      countries |-> NoCountriesFile,
      countriesRaw |-> FALSE,
      catalog |-> NoCatalogFile ]

EmptyDisk == EmptyDiskOver(Targets)

\* --delay-ms when the command line does not give it
DefaultDelayMs == 300

NoOptions ==
    [ allCountries |-> FALSE, allLevels |-> FALSE,
      countries |-> << >>, levels |-> << >>, delayMs |-> 0 ]

\* The error a run ends with: its text and the country, level and parent
\* level its message names (Null and 0 when the message names none).
NoFailure == [ text |-> "none", country |-> Null, level |-> 0, parentLevel |-> 0 ]

RunIdle ==
    [ runTimestamp |-> 0, levelsByCountry |-> NoLevels,
      levelsCatalogChanged |-> FALSE, countryCodes |-> << >>, ci |-> 1,
      levelsForCountry |-> << >>, li |-> 1, content |-> NoFile,
      caller |-> "none", parents |-> 0, chunk |-> 1, error |-> NoFailure,
      caught |-> "none", parentRelationIds |-> << >> ]

\* History of the visit of one target: what was on disk when the level loop
\* reached it and whether a request was issued since.
NoVisit ==
    [ target |-> << "EE", 2 >>, active |-> FALSE, existed |-> FALSE,
      json |-> NoFile, gz |-> NoFile, requested |-> FALSE ]

\* History of the runs: requested / touched tell whether the current run
\* issued a request / created, wrote or removed a file; visited and missing
\* are the targets its level loop reached and those without a file then;
\* covered tells whether the run started on a complete directory; log is the
\* list of the requests the running process has issued, in order; catalogRead
\* tells whether the run has read country-levels.json; unsaved holds the
\* countries whose levels the latest full sweep that did not reach its end
\* had discovered; slept is the time the run has slept in runBackup since its
\* latest request.
HistInit ==
    [ runs |-> 0, kills |-> 0, requested |-> FALSE, touched |-> FALSE,
      covered |-> FALSE, visited |-> {}, missing |-> {},
      firstCreated |-> [ t \in Targets |-> 0 ],
      visit |-> NoVisit, log |-> << >>, catalogRead |-> FALSE,
      unsaved |-> {}, slept |-> 0 ]

RunOff ==
    /\ pc = "off"
    /\ opts = NoOptions
    /\ now = 0
    /\ disk = EmptyDisk
    /\ run = RunIdle
    /\ hist = HistInit

RECURSIVE Pow2(_)
Pow2(n) == IF n <= 0 THEN 1 ELSE 2 * Pow2(n - 1)

Last(s) == s[Len(s)]

(***************************************************************************)
(* fetchOverpass                                                           *)
(***************************************************************************)
OVERPASS_ENDPOINTS ==
    << "https://overpass-api.de/api/interpreter",
       "https://overpass.kumi.systems/api/interpreter",
       "https://overpass.openstreetmap.ru/api/interpreter" >>

MaxAttempts == 3

BaseDelayMs == 800

\* What one attempt can observe.  A thrown fetch (network error, abort on
\* FETCH_TIMEOUT_MS, body read error) carries no response; a response has a
\* status, a content type that does or does not mention json, the first
\* non-blank character of the body and whether JSON.parse accepts the body.
Statuses == {200, 429, 502, 503, 504, 500}

Responses ==
    { r \in [ thrown : {FALSE}, status : Statuses, ctJson : BOOLEAN,
              first : {"<", "{", "other"}, parses : BOOLEAN ] :
        r.first = "<" => ~r.parses }

FetchThrown ==
    [ thrown |-> TRUE, status |-> 0, ctJson |-> FALSE,
      first |-> "other", parses |-> FALSE ]

Observations == Responses \cup {FetchThrown}

\* Before the first attempt: no response, no error, no result.
NoResponse ==
    [ thrown |-> FALSE, status |-> 0, ctJson |-> FALSE,
      first |-> "other", parses |-> FALSE ]

NoError == [ kind |-> Null, endpoint |-> Null, status |-> 0 ]

NoResult == [ endpoint |-> Null ]

IsTransientStatus(status) == status \in {429, 502, 503, 504}

ResponseOk(status) == status >= 200 /\ status <= 299

\* startsLikeXml || (!ct.includes("json") && !text.trim().startsWith("{"))
LooksNonJson(r) == r.first = "<" \/ (~r.ctJson /\ r.first # "{")

\* The path one attempt takes through the try block.
ClassifyAttempt_noBodyCheck(r) ==
    IF r.thrown THEN "network"
    ELSE IF IsTransientStatus(r.status) THEN "transient"
    ELSE IF ~ResponseOk(r.status) THEN "http"
    ELSE IF ~r.parses THEN "parse"
    ELSE "ok"
ClassifyAttempt(r) ==
    IF r.thrown THEN "network"
    ELSE IF IsTransientStatus(r.status) THEN "transient"
    ELSE IF ~ResponseOk(r.status) THEN "http"
    ELSE IF LooksNonJson(r) THEN "non_json"
    ELSE IF ~r.parses THEN "parse"
    ELSE "ok"

\* Where the two nested for loops stand after a failed attempt (e, k).
LoopAfterFailure_giveUp(e, k) ==
    IF k < MaxAttempts THEN [ done |-> FALSE, e |-> e, k |-> k + 1 ]
    ELSE [ done |-> TRUE, e |-> e, k |-> k ]
LoopAfterFailure_rotate(e, k) ==
    IF e < Len(OVERPASS_ENDPOINTS) THEN [ done |-> FALSE, e |-> e + 1, k |-> k ]
    ELSE IF k < MaxAttempts THEN [ done |-> FALSE, e |-> 1, k |-> k + 1 ]
    ELSE [ done |-> TRUE, e |-> e, k |-> k ]
LoopAfterFailure(e, k) ==
    IF k < MaxAttempts THEN [ done |-> FALSE, e |-> e, k |-> k + 1 ]
    ELSE IF e < Len(OVERPASS_ENDPOINTS) THEN [ done |-> FALSE, e |-> e + 1, k |-> 1 ]
    ELSE [ done |-> TRUE, e |-> e, k |-> k ]

\* sleep(800 * Math.pow(2, attempt - 1)) of the transient branch
TransientDelay_linear(k) == BaseDelayMs * k
TransientDelay(k) == BaseDelayMs * Pow2(k - 1)

\* sleep(800 * Math.pow(2, attempt - 1)) of the catch block
CatchDelay(k) == BaseDelayMs * Pow2(k - 1)

\* The outcome recorded in the request history: the transient branch
\* (lastError set, sleep, continue), the catch block, or the return.
OutcomeOf(kind) ==
    IF kind = "ok" THEN "ok"
    ELSE IF kind = "transient" THEN "transient"
    ELSE "error"

FetchStart ==
    /\ fetchPc = "attempt"
    /\ endpointIdx = 1
    /\ attempt = 1
    /\ lastError = NoError
    /\ lastResponse = NoResponse
    /\ requests = << >>
    /\ sleeps = << >>
    /\ fetchResult = NoResult
    /\ inflight = {}
    /\ calls = 1

FetchOff ==
    /\ fetchPc = "off"
    /\ endpointIdx = 1
    /\ attempt = 1
    /\ lastError = NoError
    /\ lastResponse = NoResponse
    /\ requests = << >>
    /\ sleeps = << >>
    /\ fetchResult = NoResult
    /\ inflight = {}
    /\ calls = 0

\* No request has been handled.
NoPayload == [ created_at |-> 0, refreshed_at |-> 0, chunked |-> FALSE ]

NoServed ==
    [ route |-> "none", country |-> Null, level |-> 0, status |-> 0,
      body |-> NoPayload, count |-> 0 ]

ServeOff == served = NoServed

RowsOff ==
    /\ rowsPc = "off"
    /\ payload = [ form |-> "id_ref", elements |-> << >> ]
    /\ rows = << >>
    /\ rowsByKey = << >>
    /\ chunkRows = << >>

FetchInit == FetchStart /\ RowsOff /\ RunOff /\ ServeOff

\* What the try block does with the observation r of the awaited fetch, up to
\* the return or up to the start of the sleep.
Observe(r) ==
    LET kind == ClassifyAttempt(r)
        ep   == OVERPASS_ENDPOINTS[endpointIdx]
    IN  /\ lastResponse' = r
        /\ requests' = Append(requests,
               [ endpoint |-> ep, attempt |-> attempt,
                 outcome |-> OutcomeOf(kind) ])
        /\ IF kind = "ok"
           THEN /\ fetchPc' = "returned"
                /\ fetchResult' = [ endpoint |-> ep ]
                /\ UNCHANGED << lastError, sleeps >>
           ELSE /\ fetchPc' = "backoff"
                /\ lastError' = [ kind |-> kind, endpoint |-> ep,
                                  status |-> r.status ]
                /\ sleeps' = Append(sleeps,
                       [ endpoint |-> ep, attempt |-> attempt,
                         ms |-> IF kind = "transient"
                                THEN TransientDelay(attempt)
                                ELSE CatchDelay(attempt) ])
                /\ UNCHANGED fetchResult

\* One pass through the try block: the request, the response and its handling
\* up to the return or up to the start of the sleep.
FetchAttempt ==
    /\ fetchPc = "attempt"
    /\ \E r \in Observations : Observe(r)
    /\ UNCHANGED << endpointIdx, attempt, inflight, calls >>
    /\ UNCHANGED << rowVars, runVars, serveVars >>

\* The sleep ends: continue with the next attempt, the next endpoint, or
\* leave both loops and throw lastError.
FetchBackoffDone ==
    /\ fetchPc = "backoff"
    /\ LET nxt == LoopAfterFailure(endpointIdx, attempt)
       IN  IF nxt.done
           THEN /\ fetchPc' = "thrown"
                /\ UNCHANGED << endpointIdx, attempt >>
           ELSE /\ fetchPc' = "attempt"
                /\ endpointIdx' = nxt.e
                /\ attempt' = nxt.k
    /\ UNCHANGED << lastError, lastResponse, requests, sleeps, fetchResult >>
    /\ UNCHANGED << inflight, calls >>
    /\ UNCHANGED << rowVars, runVars, serveVars >>

FetchNext == FetchAttempt \/ FetchBackoffDone

SpecFetch == FetchInit /\ [][FetchNext]_vars

(***************************************************************************)
(* Properties of fetchOverpass                                             *)
(***************************************************************************)
FailedOn(e) ==
    { i \in 1..Len(requests) :
        requests[i].endpoint = OVERPASS_ENDPOINTS[e] /\ requests[i].outcome # "ok" }

\* C5: fetchOverpass throws only after 3 failed attempts on each of the 3
\* endpoints (9 requests); it never issues more than 9 requests, and a
\* successful attempt is the last request of the call and makes it return.
C5_ThrowsOnlyWhenExhausted ==
    /\ Len(requests) <= 9
    /\ fetchPc = "thrown" =>
          /\ Len(requests) = 9
          /\ \A e \in 1..3 : Cardinality(FailedOn(e)) = 3
    /\ \A i \in 1..Len(requests) :
          requests[i].outcome = "ok" => i = Len(requests) /\ fetchPc = "returned"
    /\ fetchPc = "returned" => Len(requests) > 0 /\ Last(requests).outcome = "ok"

C5_Witness == fetchPc = "thrown" /\ Len(requests) = 9

\* A 200 response whose body is a JSON object served as JSON.
IsValidJson200(r) ==
    ~r.thrown /\ r.status = 200 /\ r.ctJson /\ r.first = "{" /\ r.parses

\* C6: requests follow the list order of the endpoints, three attempts per
\* endpoint, and endpoint i+1 is contacted only after three failed attempts on
\* endpoint i; a transient status on attempt k < 3 followed by a valid 200 on
\* attempt k+1 of the same endpoint ends the call with that endpoint as the
\* serving endpoint and with no further request.
C6_EndpointOrder ==
    /\ \A i \in 1..Len(requests) :
          /\ requests[i].endpoint = OVERPASS_ENDPOINTS[((i - 1) \div 3) + 1]
          /\ requests[i].attempt = ((i - 1) % 3) + 1
          /\ i > 1 => requests[i - 1].outcome # "ok"
    /\ \A i \in 1..(Len(requests) - 1) :
          ( /\ requests[i].outcome = "transient"
            /\ requests[i].attempt < 3
            /\ i + 1 = Len(requests)
            /\ IsValidJson200(lastResponse) )
          => /\ fetchPc = "returned"
             /\ fetchResult = [ endpoint |-> requests[i].endpoint ]
             /\ requests[i + 1].endpoint = requests[i].endpoint
             /\ requests[i + 1].attempt = requests[i].attempt + 1

C6_Witness ==
    /\ Len(requests) = 5
    /\ requests[4].outcome = "transient"
    /\ IsValidJson200(lastResponse)
    /\ fetchPc = "returned"
    /\ fetchResult = [ endpoint |-> OVERPASS_ENDPOINTS[2] ]

ExpectedDelays == << 800, 1600, 3200, 800, 1600, 3200, 800, 1600, 3200 >>

\* C7: the k-th failed attempt on an endpoint is followed by a sleep of
\* 800 * 2^(k-1) ms, whether it failed with a transient status or with a
\* thrown error, and the sequence restarts at 800 on the next endpoint.
C7_BackoffSequence ==
    /\ Len(sleeps) <= Len(ExpectedDelays)
    /\ Len(sleeps) = Cardinality({ i \in 1..Len(requests) : requests[i].outcome # "ok" })
    /\ \A i \in 1..Len(sleeps) :
          /\ sleeps[i].ms = ExpectedDelays[i]
          /\ sleeps[i].endpoint = requests[i].endpoint
          /\ sleeps[i].attempt = requests[i].attempt

C7_Witness ==
    /\ Len(sleeps) = 5
    /\ requests[2].outcome = "transient"
    /\ requests[3].outcome = "error"
    /\ requests[4].outcome = "transient"
    /\ requests[5].outcome = "error"

\* The failures C8 is about, stated on the observation itself.
IsHardFailure(r) ==
    \/ r.thrown
    \/ ~r.thrown /\ r.status \notin {429, 502, 503, 504}
                 /\ ~(r.status >= 200 /\ r.status <= 299)
    \/ ~r.thrown /\ r.status >= 200 /\ r.status <= 299
                 /\ (r.first = "<" \/ (~r.ctJson /\ r.first # "{") \/ ~r.parses)

\* C8: a non-transient non-OK status, a non-JSON body, an unparsable body or
\* a thrown fetch is one failed attempt of the current endpoint: it is followed
\* by a backoff sleep and then by the next attempt of the same endpoint (or the
\* first attempt of the next endpoint after the third), never by an immediate
\* failure of the call.
C8_HardFailureIsOneAttempt ==
    [][ /\ ( fetchPc = "attempt" /\ requests' # requests /\ IsHardFailure(lastResponse') )
           => /\ fetchPc' = "backoff"
              /\ Last(requests').outcome = "error"
              /\ Last(requests').endpoint = OVERPASS_ENDPOINTS[endpointIdx]
              /\ Last(requests').attempt = attempt
              /\ Len(sleeps') = Len(sleeps) + 1
              /\ endpointIdx' = endpointIdx /\ attempt' = attempt
        /\ ( fetchPc = "backoff" /\ fetchPc' # "backoff" )
           => IF attempt < 3
              THEN fetchPc' = "attempt" /\ attempt' = attempt + 1
                   /\ endpointIdx' = endpointIdx
              ELSE IF endpointIdx < 3
              THEN fetchPc' = "attempt" /\ attempt' = 1
                   /\ endpointIdx' = endpointIdx + 1
              ELSE fetchPc' = "thrown"
      ]_vars

C8_Witness ==
    /\ fetchPc = "attempt"
    /\ attempt = 2
    /\ Len(requests) = 1
    /\ ~lastResponse.thrown /\ lastResponse.status = 200 /\ lastResponse.first = "<"
    /\ requests[1].outcome = "error"


(***************************************************************************)
(* overpassToRows (lib/transform.ts)                                       *)
(***************************************************************************)
MaxElemId == 2

MaxFeatures == 2

ElemIds == 1..MaxElemId

\* Coordinates: a ring of two points whose mean is integral.
Ring == << << 0, 0 >>, << 2, 4 >> >>

PolygonGeom      == [ type |-> "Polygon",      coordinates |-> << Ring >> ]
EmptyPolygonGeom == [ type |-> "Polygon",      coordinates |-> << >> ]
MultiPolygonGeom == [ type |-> "MultiPolygon", coordinates |-> << << Ring >> >> ]
LineStringGeom   == [ type |-> "LineString",   coordinates |-> Ring ]
NoGeom           == [ type |-> Null,           coordinates |-> << >> ]

PointCenter == [ type |-> "Point", coordinates |-> << 9, 9 >> ]

\* One source element with its tags and geometry, as the conversion step
\* sees it.
Canonical(etype, eid, name) ==
    [ etype |-> etype, eid |-> eid, name |-> name, boundary |-> Null,
      typeTag |-> Null, admin_level |-> NoNumber, geometry |-> PolygonGeom,
      center |-> PointCenter, center_lon |-> NoNumber, center_lat |-> NoNumber ]

BaseElement == Canonical("relation", 1, "A")

\* Elements of every identity, plus the variants of one element in which one
\* field departs from the well-formed case.
Elements ==
    { Canonical(t, i, n) : t \in {"relation", "way"}, i \in ElemIds, n \in {"A", "B"} }
    \cup { [ BaseElement EXCEPT !.name = n ] : n \in {Null, "", "  "} }
    \cup { [ BaseElement EXCEPT !.boundary = b ] : b \in {"administrative", "national_park"} }
    \cup { [ BaseElement EXCEPT !.typeTag = "boundary" ] }
    \cup { [ BaseElement EXCEPT !.admin_level = 6 ] }
    \cup { [ BaseElement EXCEPT !.geometry = g ] :
             g \in {MultiPolygonGeom, LineStringGeom, NoGeom} }
    \cup { [ BaseElement EXCEPT !.center = NoPoint ] }
    \cup { [ BaseElement EXCEPT !.center = NoPoint, !.center_lon = 5, !.center_lat = 7 ] }
    \cup { [ BaseElement EXCEPT !.center = NoPoint, !.geometry = EmptyPolygonGeom ] }

\* The property layouts parseOsmId and parseOsmType provide for: the id as a
\* "type/id" reference under id or under @id, or as a number under id or
\* under osm_id next to a type property.
Forms == {"id_ref", "at_id_ref", "id_num", "osm_id_num"}

DistinctIdentities(els) ==
    \A i, j \in 1..Len(els) :
        i # j => << els[i].etype, els[i].eid >> # << els[j].etype, els[j].eid >>

SeqsUpTo(S, n) == UNION { [ 1..k -> S ] : k \in 0..n }

\* A payload: its elements (each element once) and the layout of the
\* properties the conversion step produces for it.
PayloadsOver(S, n) ==
    { [ form |-> f, elements |-> els ] :
        f \in Forms, els \in { e \in SeqsUpTo(S, n) : DistinctIdentities(e) } }

Payloads == PayloadsOver(Elements, MaxFeatures)

Ref(etype, eid) == [ kind |-> "string", etype |-> etype, n |-> eid ]

Num(n) == [ kind |-> "number", etype |-> Null, n |-> n ]

NoId == [ kind |-> Null, etype |-> Null, n |-> NoNumber ]

\* The properties of the feature of one element.
PropertiesOf(el, form) ==
    [ id     |-> IF form = "id_ref" THEN Ref(el.etype, el.eid)
                 ELSE IF form = "id_num" THEN Num(el.eid) ELSE NoId,
      at_id  |-> IF form = "at_id_ref" THEN Ref(el.etype, el.eid) ELSE NoId,
      osm_id |-> IF form = "osm_id_num" THEN Num(el.eid) ELSE NoId,
      type   |-> IF form \in {"id_num", "osm_id_num"} THEN el.etype ELSE el.typeTag,
      name |-> el.name, boundary |-> el.boundary, admin_level |-> el.admin_level,
      center |-> el.center, center_lon |-> el.center_lon,
      center_lat |-> el.center_lat ]

\* osmtogeojson(overpassPayload): one feature per element.
osmtogeojson(p) ==
    [ i \in 1..Len(p.elements) |->
        [ properties |-> PropertiesOf(p.elements[i], p.form),
          geometry   |-> p.elements[i].geometry ] ]

normalizeMultiPolygon_passThrough(geometry) ==
    IF geometry.type = Null THEN NoGeom ELSE geometry
normalizeMultiPolygon(geometry) ==
    IF geometry.type = Null THEN NoGeom
    ELSE IF geometry.type = "MultiPolygon"
    THEN [ type |-> "MultiPolygon", coordinates |-> geometry.coordinates ]
    ELSE IF geometry.type = "Polygon"
    THEN [ type |-> "MultiPolygon", coordinates |-> << geometry.coordinates >> ]
    ELSE NoGeom

\* a ?? b ?? c
Coalesce(a, b, c) == IF a # NoId THEN a ELSE IF b # NoId THEN b ELSE c

parseOsmId(properties) ==
    LET raw == Coalesce(properties.id, properties.at_id, properties.osm_id)
    IN  IF raw.kind = "number" THEN raw.n
        ELSE IF raw.kind = "string" THEN raw.n
        ELSE NoNumber

parseOsmType(properties) ==
    IF properties.type = "way" THEN "way" ELSE "relation"

RECURSIVE SumLon(_), SumLat(_)
SumLon(ring) == IF ring = << >> THEN 0 ELSE ring[1][1] + SumLon(Tail(ring))
SumLat(ring) == IF ring = << >> THEN 0 ELSE ring[1][2] + SumLat(Tail(ring))

deriveCenterFromGeom(geom) ==
    IF Len(geom.coordinates) = 0 THEN NoPoint
    ELSE LET poly0 == geom.coordinates[1]
         IN  IF Len(poly0) = 0 THEN NoPoint
             ELSE LET ring0 == poly0[1]
                  IN  IF Len(ring0) = 0 THEN NoPoint
                      ELSE [ type |-> "Point",
                             coordinates |-> << SumLon(ring0) \div Len(ring0),
                                                SumLat(ring0) \div Len(ring0) >> ]

pickCenter(properties, geom) ==
    IF properties.center # NoPoint THEN properties.center
    ELSE IF properties.center_lon # NoNumber /\ properties.center_lat # NoNumber
    THEN [ type |-> "Point",
           coordinates |-> << properties.center_lon, properties.center_lat >> ]
    ELSE deriveCenterFromGeom(geom)

\* String(properties.name ?? "").trim()
TrimmedName(properties) ==
    IF properties.name \in {Null, "", "  "} THEN "" ELSE properties.name

\* The continue statements of the loop over the features: TRUE when the
\* feature yields no row.
SkipsFeature(feature) ==
    LET properties == feature.properties
        geom == normalizeMultiPolygon(feature.geometry)
    IN  \/ TrimmedName(properties) = ""
        \/ properties.boundary # Null /\ properties.boundary # "administrative"
        \/ geom = NoGeom
        \/ parseOsmId(properties) = NoNumber
        \/ pickCenter(properties, geom) = NoPoint

\* The row pushed for a feature that passes every check.
RowOfFeature(countryCode, level, feature) ==
    LET properties == feature.properties
        geom == normalizeMultiPolygon(feature.geometry)
    IN  [ country_code |-> countryCode,
          admin_level |-> IF properties.admin_level # NoNumber
                          THEN properties.admin_level ELSE level,
          osm_type |-> parseOsmType(properties),
          osm_id |-> parseOsmId(properties),
          name |-> TrimmedName(properties),
          center_geojson |-> pickCenter(properties, geom),
          geom_geojson |-> geom,
          feature_properties |-> properties ]

RECURSIVE RowsOfFeatures(_, _, _)
RowsOfFeatures(countryCode, level, features) ==
    IF features = << >> THEN << >>
    ELSE LET rest == RowsOfFeatures(countryCode, level, Tail(features))
         IN  IF SkipsFeature(features[1]) THEN rest
             ELSE << RowOfFeature(countryCode, level, features[1]) >> \o rest

overpassToRows(countryCode, level, overpassPayload) ==
    RowsOfFeatures(countryCode, level, osmtogeojson(overpassPayload))

\* `${row.osm_type}/${row.osm_id}`
RowKey(row) == << row.osm_type, row.osm_id >>

RowsCountry == "EE"

RowsLevel == 9

RowsInit ==
    /\ rowsPc = "call"
    /\ payload \in Payloads
    /\ rows = << >>
    /\ rowsByKey = << >>
    /\ chunkRows = << >>
    /\ FetchOff
    /\ ServeOff
    /\ RunOff

\* const rows = overpassToRows(countryCode, level, data)
TransformPayload ==
    /\ rowsPc = "call"
    /\ rows' = overpassToRows(RowsCountry, RowsLevel, payload)
    /\ rowsPc' = "done"
    /\ UNCHANGED << payload, rowsByKey, chunkRows >>
    /\ UNCHANGED << fetchVars, runVars, serveVars >>

RowsNext == TransformPayload

SpecRows == RowsInit /\ [][RowsNext]_vars

\* C10: overpassToRows returns no two rows with the same (osm_type, osm_id).
C10_UniqueRowKeys ==
    rowsPc = "done" =>
        \A i, j \in 1..Len(rows) : i # j => RowKey(rows[i]) # RowKey(rows[j])

\* The features the conversion step hands to the loop of overpassToRows.
Features == osmtogeojson(payload)

\* The row was pushed for the feature (the properties hold the identity of
\* the element, and a payload holds each element once).
RowOf(row, feature) == row.feature_properties = feature.properties

BlankName(name) == name \in {Null, "", "  "}

MaxChunks == 2

MaxChunkFeatures == 2

\* The elements the chunk responses are drawn from: the same identity may
\* come back from two parents with different property snapshots.
ChunkElements ==
    { Canonical("relation", i, "A") : i \in ElemIds }
    \cup { Canonical("relation", 1, "B"), Canonical("way", 1, "A") }

ChunkPayloads ==
    { p \in PayloadsOver(ChunkElements, MaxChunkFeatures) : p.form = "id_ref" }

\* rowsByKey.set(key, row): a Map keeps the position of an existing key and
\* replaces its value, and appends a new key.
MapSet_keepFirst(m, key, row) ==
    IF \E i \in 1..Len(m) : m[i].key = key
    THEN m
    ELSE Append(m, [ key |-> key, row |-> row ])
MapSet(m, key, row) ==
    IF \E i \in 1..Len(m) : m[i].key = key
    THEN [ i \in 1..Len(m) |->
             IF m[i].key = key THEN [ key |-> key, row |-> row ] ELSE m[i] ]
    ELSE Append(m, [ key |-> key, row |-> row ])

\* for (const row of partRows) rowsByKey.set(`${row.osm_type}/${row.osm_id}`, row)
RECURSIVE MergeRows(_, _)
MergeRows(m, partRows) ==
    IF partRows = << >> THEN m
    ELSE MergeRows(MapSet(m, RowKey(partRows[1]), partRows[1]), Tail(partRows))

\* Array.from(rowsByKey.values())
MapValues(m) == [ i \in 1..Len(m) |-> m[i].row ]

MergeInit ==
    /\ rowsPc = "merge"
    /\ payload = [ form |-> "id_ref", elements |-> << >> ]
    /\ rows = << >>
    /\ rowsByKey = << >>
    /\ chunkRows = << >>
    /\ FetchOff
    /\ ServeOff
    /\ RunOff

\* One iteration of the loop over parentRelationIds: the chunk response is
\* transformed and its rows are merged into rowsByKey.
MergeChunk ==
    /\ rowsPc = "merge"
    /\ Len(chunkRows) < MaxChunks
    /\ \E chunk \in ChunkPayloads :
        LET partRows == overpassToRows(RowsCountry, RowsLevel, chunk)
        IN  /\ payload' = chunk
            /\ rowsByKey' = MergeRows(rowsByKey, partRows)
            /\ chunkRows' = Append(chunkRows, partRows)
    /\ UNCHANGED << rowsPc, rows >>
    /\ UNCHANGED << fetchVars, runVars, serveVars >>

\* The loop has run over every parent relation (there is at least one).
MergeFinish ==
    /\ rowsPc = "merge"
    /\ Len(chunkRows) >= 1
    /\ rows' = MapValues(rowsByKey)
    /\ rowsPc' = "done"
    /\ UNCHANGED << payload, rowsByKey, chunkRows >>
    /\ UNCHANGED << fetchVars, runVars, serveVars >>

MergeNext == MergeChunk \/ MergeFinish

SpecMerge == MergeInit /\ [][MergeNext]_vars

\* The chunks, in processing order, that contain a row with the given key.
ChunksWith(key) ==
    { c \in 1..Len(chunkRows) :
        \E i \in 1..Len(chunkRows[c]) : RowKey(chunkRows[c][i]) = key }

LatestChunkWith(key) ==
    CHOOSE c \in ChunksWith(key) : \A d \in ChunksWith(key) : d <= c

RECURSIVE SumLen(_)
SumLen(ss) == IF ss = << >> THEN 0 ELSE Len(ss[1]) + SumLen(Tail(ss))

\* C9: the merged rows hold at most one row per (osm_type, osm_id); every key
\* of a processed chunk is present, with a row of the latest processed chunk
\* that contains the key; and there are at most as many merged rows as the
\* chunks had rows in total.
C9_MergeKeepsLatest ==
    rowsPc = "done" =>
        /\ \A i, j \in 1..Len(rows) : i # j => RowKey(rows[i]) # RowKey(rows[j])
        /\ \A c \in 1..Len(chunkRows) : \A k \in 1..Len(chunkRows[c]) :
              LET key == RowKey(chunkRows[c][k])
                  latest == chunkRows[LatestChunkWith(key)]
                  lastAt == CHOOSE n \in 1..Len(latest) :
                                /\ RowKey(latest[n]) = key
                                /\ \A m \in (n + 1)..Len(latest) :
                                      RowKey(latest[m]) # key
              IN  \E i \in 1..Len(rows) :
                    /\ RowKey(rows[i]) = key
                    /\ rows[i] = latest[lastAt]
        /\ \A i \in 1..Len(rows) : ChunksWith(RowKey(rows[i])) # {}
        /\ Len(rows) <= SumLen(chunkRows)

C9_Witness ==
    /\ rowsPc = "done"
    /\ Len(chunkRows) = 2
    /\ Len(rows) < SumLen(chunkRows)
    /\ \E i \in 1..Len(chunkRows[1]) : \E j \in 1..Len(chunkRows[2]) :
          /\ RowKey(chunkRows[1][i]) = RowKey(chunkRows[2][j])
          /\ chunkRows[1][i] # chunkRows[2][j]
          /\ \E n \in 1..Len(rows) : rows[n] = chunkRows[2][j]

(***************************************************************************)
(* runBackup (commands/backup.ts)                                          *)
(***************************************************************************)
Exists(file) == file.st # "none"

\* The created_at of the file at the path when it exists, parses and has a
\* non-blank created_at; the fallback otherwise.
resolveCreatedAt(file, fallback) ==
    IF ~Exists(file) THEN fallback
    ELSE IF file.st = "full" /\ file.created_at # 0 THEN file.created_at
    ELSE fallback

missingOnlyMode(o) == o.allCountries /\ o.allLevels

ToUpperCase(code) ==
    IF code = "ee" THEN "EE" ELSE IF code = " lv " THEN " LV " ELSE code

Trim(code) == IF code = " LV " THEN "LV" ELSE code

\* /^[A-Z]{2}$/, over the strings of the model
MatchesCountryCode(code) == code \in Countries

UpperAll(codes) == [ i \in 1..Len(codes) |-> ToUpperCase(codes[i]) ]

RECURSIVE SortedSeq(_)
SortedSeq(S) ==
    IF S = {} THEN << >>
    ELSE LET m == CHOOSE x \in S : \A y \in S : x <= y
         IN  << m >> \o SortedSeq(S \ {m})

\* Number(v): a numeric string converts to its number.
Number(v) == IF v.kind = "numeric string" THEN [ v EXCEPT !.kind = "int" ] ELSE v

\* Number.isInteger(v) && v > 0
PositiveInteger(v) == v.kind = "int" /\ v.n > 0

\* Array.from(new Set(levelsRaw.map(Number).filter(...))).sort((a, b) => a - b)
CleanLevels_unfiltered(items) ==
    SortedSeq({ Number(items[i]).n : i \in 1..Len(items) })
CleanLevels(items) ==
    SortedSeq({ Number(items[i]).n :
                  i \in { j \in 1..Len(items) : PositiveInteger(Number(items[j])) } })

\* Line 129: if (levels.length > 0) out[country] = levels
KeepsLevels_any(levels) == TRUE
KeepsLevels(levels) == Len(levels) > 0

\* The loop over Object.entries(entries) of loadCountryLevelsCatalog.
RECURSIVE LoadEntries(_, _)
LoadEntries(entries, out) ==
    IF entries = << >> THEN out
    ELSE LET country == Trim(ToUpperCase(entries[1].key))
             levels == CleanLevels(entries[1].items)
         IN  LoadEntries(Tail(entries),
                 IF ~MatchesCountryCode(country) \/ ~entries[1].array THEN out
                 ELSE IF KeepsLevels(levels)
                 THEN SetEntry(out, country, levels)
                 ELSE out)

\* The map loadCountryLevelsCatalog returns; a country is known when the map
\* has its key.  No file, an unreadable file and an unparsable file give {}.
loadCountryLevelsCatalog(file) ==
    IF file.st # "full" THEN NoLevels
    ELSE LoadEntries(file.levels_by_country, NoLevels)

RECURSIVE EntriesOf(_, _)
\* The entries JSON.stringify writes for the keys of the map.
EntriesOf(levelsByCountry, keys) ==
    IF keys = {} THEN << >>
    ELSE LET c == CHOOSE k \in keys : TRUE
         IN  << CatalogEntry(c, [ i \in 1..Len(levelsByCountry[c]) |->
                                    JsonInt(levelsByCountry[c][i]) ]) >>
             \o EntriesOf(levelsByCountry, keys \ {c})

\* saveCountryLevelsCatalog: the file it writes.
saveCountryLevelsCatalog(file, levelsByCountry, fallbackCreatedAt, t) ==
    [ st |-> "full",
      created_at |-> resolveCreatedAt(file, fallbackCreatedAt),
      refreshed_at |-> t,
      levels_by_country |->
          EntriesOf(levelsByCountry, DOMAIN levelsByCountry) ]

\* The country codes of countries.json, upper-cased and trimmed, that match
\* /^[A-Z]{2}$/; [] for a missing, unreadable or unparsable file.
parseCountryCodesFromCountriesBackup_unfiltered(file) ==
    IF file.st # "full" THEN << >>
    ELSE [ i \in 1..Len(file.codes) |-> Trim(ToUpperCase(file.codes[i])) ]
parseCountryCodesFromCountriesBackup(file) ==
    IF file.st # "full" THEN << >>
    ELSE SelectSeq([ i \in 1..Len(file.codes) |-> Trim(ToUpperCase(file.codes[i])) ],
                   MatchesCountryCode)

\* What extractRelationIds can return for the parent relations query: the
\* relation ids of the answer, in the order of the answer.
ParentList(n) == [ i \in 1..n |-> MaxParents + 1 - i ]

ParentAnswers == { ParentList(n) : n \in 0..MaxParents }

\* The error messages a failed fetch can carry.
ErrorMessages ==
    { "Cannot create a string longer than", "Invalid string length",
      "heap out of memory", "Overpass 504" }

isPayloadTooLargeError(msg) ==
    msg \in { "Cannot create a string longer than", "Invalid string length",
              "heap out of memory" }

shouldUseChunkFallback_sizeOnly(level, msg) ==
    level > 2 /\ isPayloadTooLargeError(msg)
shouldUseChunkFallback(level, msg) ==
    IF level <= 2 THEN FALSE
    ELSE IF isPayloadTooLargeError(msg) THEN TRUE
    ELSE IF level >= 8 THEN TRUE
    ELSE FALSE

\* missingOnlyMode && (fs.existsSync(filePath) || fs.existsSync(compressedFilePath))
ShouldSkip_jsonOnly(missingOnly, jsonFile, gzFile) ==
    missingOnly /\ Exists(jsonFile)
ShouldSkip(missingOnly, jsonFile, gzFile) ==
    missingOnly /\ (Exists(jsonFile) \/ Exists(gzFile))

\* missingOnlyMode && Array.isArray(levelsByCountry[countryCode])
UsesCatalog_never(missingOnly, entry) == FALSE
UsesCatalog(missingOnly, entry) == missingOnly /\ entry.known

\* The option records over a set of --delay-ms values.
OptionsWith(delays) ==
    { o \in [ allCountries : BOOLEAN, allLevels : BOOLEAN,
              countries : CountryArgs, levels : LevelArgs, delayMs : delays ] :
        /\ o.allCountries => o.countries = << >>
        /\ o.allLevels => o.levels = << >> }

\* The runs over one directory are started with the default delay.
RunOptions == OptionsWith({ DefaultDelayMs })

CurCountry == run.countryCodes[run.ci]

CurLevel == run.levelsForCountry[run.li]

Cur == << CurCountry, CurLevel >>

\* The requests of a run, as fetchOverpass receives them: the query builder
\* and its arguments.
CountriesRequest ==
    [ query |-> "buildAllCountriesQuery", country |-> Null, level |-> 0, id |-> 0 ]

LevelsRequest(countryCode) ==
    [ query |-> "buildCountryLevelsQuery", country |-> countryCode,
      level |-> 0, id |-> 0 ]

DirectRequest(countryCode, level) ==
    [ query |-> "buildOverpassQuery", country |-> countryCode,
      level |-> level, id |-> 0 ]

\* Math.max(2, level - 2)
parentLevel_noFloor(level) == level - 2
parentLevel(level) == IF level - 2 > 2 THEN level - 2 ELSE 2

ParentsRequest(countryCode, level) ==
    [ query |-> "buildParentRelationsQuery", country |-> countryCode,
      level |-> parentLevel(level), id |-> 0 ]

ChunkRequest(parentId, level) ==
    [ query |-> "buildOverpassQueryForParentRelation", country |-> Null,
      level |-> level, id |-> parentId ]

\* The history once the request has been answered.
Requested(request) ==
    [ hist EXCEPT !.requested = TRUE, !.visit.requested = TRUE,
                  !.log = Append(@, request), !.slept = 0 ]

\* The countries a level discovery query of the log is for.
DiscoveredIn(log) ==
    { log[i].country :
        i \in { j \in 1..Len(log) : log[j].query = "buildCountryLevelsQuery" } }

\* An error thrown in the level loop is caught nowhere in runBackup: main
\* prints it and the process exits.
AfterTargetError_nextTarget == "skipped"
AfterTargetError == "failed"

Fail(reason) == [ run EXCEPT !.error = [ NoFailure EXCEPT !.text = reason ] ]

\* throw new Error(`Failed country=${countryCode} level=${level}: ...`)
FailTarget_unnamed(reason, countryCode, level, parentLvl) == Fail(reason)
FailTarget(reason, countryCode, level, parentLvl) ==
    [ run EXCEPT !.error = [ text |-> reason, country |-> countryCode,
                             level |-> level, parentLevel |-> parentLvl ] ]

\* countries.json lists a country, country-levels.json catalogs every country
\* it lists, and every cataloged (country, level) has its .json.gz file.
CoveredDirectory(d) ==
    LET codes == parseCountryCodesFromCountriesBackup(d.countries)
        catalog == loadCountryLevelsCatalog(d.catalog)
    IN  /\ Len(codes) > 0
        /\ \A i \in 1..Len(codes) :
              /\ Entry(catalog, codes[i]).known
              /\ \A k \in 1..Len(Entry(catalog, codes[i]).levels) :
                    Exists(d.gz[<< codes[i], Entry(catalog, codes[i]).levels[k] >>])

RunInit ==
    /\ pc = "idle"
    /\ opts = NoOptions
    /\ now = 0
    /\ disk = EmptyDisk
    /\ run = RunIdle
    /\ hist = HistInit
    /\ FetchOff
    /\ ServeOff
    /\ RowsOff

\* Lines 157-162: the two checks of the options.
InvalidOptions_countriesOnly(o) == ~o.allCountries /\ Len(o.countries) = 0
InvalidOptions(o) ==
    \/ ~o.allCountries /\ Len(o.countries) = 0
    \/ ~o.allLevels /\ Len(o.levels) = 0

\* Line 170: the catalog file is loaded in missing-only mode.
ReadsCatalog_always(missingOnly) == TRUE
ReadsCatalog(missingOnly) == missingOnly

\* The process starts: the option checks, ensureDir, runTimestamp and the
\* load of the level catalog.
\* Processes start in different seconds: the clock advances by one at each
\* start, and the requests of a run answer within that second.
StartRun ==
    /\ pc \in {"idle", "done", "failed"}
    /\ hist.runs < MaxRuns
    /\ \E o \in RunOptions, t \in {now + 1} :
        /\ opts' = o
        /\ now' = t
        /\ hist' = [ hist EXCEPT !.runs = @ + 1, !.requested = FALSE,
                                 !.touched = FALSE,
                                 !.covered = CoveredDirectory(disk),
                                 !.visited = {}, !.missing = {},
                                 !.visit = NoVisit, !.log = << >>,
                                 !.slept = 0,
                                 !.catalogRead =
                                     ~InvalidOptions(o)
                                     /\ ReadsCatalog(missingOnlyMode(o)),
                                 !.unsaved =
                                     IF pc = "idle" \/ ~missingOnlyMode(opts)
                                     THEN @
                                     ELSE IF pc = "failed"
                                     THEN DiscoveredIn(hist.log)
                                     ELSE {} ]
        /\ IF InvalidOptions(o)
           THEN /\ pc' = "failed"
                /\ run' = [ RunIdle EXCEPT !.error.text = "config" ]
                /\ disk' = disk
           ELSE /\ pc' = "countries"
                /\ disk' = [ disk EXCEPT !.dir = TRUE ]
                /\ run' = [ RunIdle EXCEPT
                             !.runTimestamp = t,
                             !.levelsByCountry =
                                 IF ReadsCatalog(missingOnlyMode(o))
                                 THEN loadCountryLevelsCatalog(disk.catalog)
                                 ELSE NoLevels ]
    /\ UNCHANGED << fetchVars, rowVars, serveVars >>

\* Lines 173-212: where the country list comes from.
ResolveCountries ==
    /\ pc = "countries"
    /\ LET local == missingOnlyMode(opts) /\ Exists(disk.countries)
       IN  IF opts.allCountries /\ ~local
           THEN pc' = "fetch_countries" /\ run' = run
           ELSE LET codes == IF opts.allCountries
                             THEN parseCountryCodesFromCountriesBackup(disk.countries)
                             ELSE UpperAll(opts.countries)
                IN  /\ run' = [ run EXCEPT !.countryCodes = codes ]
                    /\ pc' = IF opts.allCountries /\ Len(codes) = 0
                             THEN "fetch_countries_fallback"
                             ELSE "country"
    /\ UNCHANGED << opts, now, disk, hist >>
    /\ UNCHANGED << fetchVars, rowVars, serveVars >>

\* The all-countries query answers: countries.raw.json and countries.json are
\* written unless the run is missing-only and countries.json exists.
CountriesFetchDone ==
    /\ pc = "fetch_countries"
    /\ now' = now
    /\ LET t == now IN
        /\ \/ /\ pc' = "failed"
              /\ run' = Fail("fetch")
              /\ disk' = disk
              /\ hist' = Requested(CountriesRequest)
           \/ \E codes \in CountryAnswers :
                /\ run' = [ run EXCEPT !.countryCodes = codes ]
                /\ pc' = IF Len(codes) = 0 THEN "fetch_countries_fallback"
                         ELSE "country"
                /\ IF missingOnlyMode(opts) /\ Exists(disk.countries)
                   THEN /\ disk' = disk
                        /\ hist' = Requested(CountriesRequest)
                   ELSE /\ disk' = [ disk EXCEPT
                              !.countriesRaw = TRUE,
                              !.countries =
                                  [ st |-> "full",
                                    created_at |-> resolveCreatedAt(disk.countries,
                                                                    run.runTimestamp),
                                    refreshed_at |-> t,
                                    codes |-> codes ] ]
                        /\ hist' = [ Requested(CountriesRequest) EXCEPT !.touched = TRUE ]
    /\ UNCHANGED opts
    /\ UNCHANGED << fetchVars, rowVars, serveVars >>

\* Lines 214-221: the second all-countries query, when the list is empty.
CountriesFallbackDone ==
    /\ pc = "fetch_countries_fallback"
    /\ now' = now
    /\ LET t == now IN
        /\ \/ /\ pc' = "failed"
              /\ run' = Fail("fetch")
           \/ \E codes \in CountryAnswers :
                IF Len(codes) = 0
                THEN pc' = "failed" /\ run' = Fail("no_countries")
                ELSE pc' = "country" /\ run' = [ run EXCEPT !.countryCodes = codes ]
    /\ hist' = Requested(CountriesRequest)
    /\ UNCHANGED << opts, disk >>
    /\ UNCHANGED << fetchVars, rowVars, serveVars >>

\* The head of the loop over countryCodes and the choice of the level list.
NextCountry ==
    /\ pc = "country"
    /\ IF run.ci > Len(run.countryCodes)
       THEN pc' = "finish" /\ run' = run
       ELSE IF ~opts.allLevels
       THEN /\ run' = [ run EXCEPT !.levelsForCountry = opts.levels, !.li = 1 ]
            /\ pc' = "level"
       ELSE IF UsesCatalog(missingOnlyMode(opts), Entry(run.levelsByCountry, CurCountry))
       THEN /\ run' = [ run EXCEPT
                          !.levelsForCountry = Entry(run.levelsByCountry, CurCountry).levels,
                          !.li = 1 ]
            /\ pc' = IF Len(Entry(run.levelsByCountry, CurCountry).levels) = 0
                     THEN "country_skipped" ELSE "level"
       ELSE pc' = "fetch_levels" /\ run' = run
    /\ UNCHANGED << opts, now, disk, hist >>
    /\ UNCHANGED << fetchVars, rowVars, serveVars >>

\* Lines 236-239 change the map in memory and set levelsCatalogChanged; the
\* file is not written there.
PersistOnDiscovery_eager == TRUE
PersistOnDiscovery == FALSE

\* The level discovery query answers.
LevelsFetchDone ==
    /\ pc = "fetch_levels"
    /\ now' = now
    /\ LET t == now IN
        /\ \/ /\ pc' = "failed"
              /\ run' = Fail("fetch")
              /\ disk' = disk
           \/ \E levels \in LevelAnswers :
                /\ disk' = IF PersistOnDiscovery /\ missingOnlyMode(opts)
                           THEN [ disk EXCEPT !.catalog =
                                    saveCountryLevelsCatalog(
                                        disk.catalog,
                                        SetEntry(run.levelsByCountry, CurCountry, levels),
                                        run.runTimestamp, t) ]
                           ELSE disk
                /\ run' = [ run EXCEPT
                              !.levelsForCountry = levels,
                              !.li = 1,
                              !.levelsByCountry =
                                  IF missingOnlyMode(opts)
                                  THEN SetEntry(@, CurCountry, levels)
                                  ELSE @,
                              !.levelsCatalogChanged =
                                  IF missingOnlyMode(opts) THEN TRUE ELSE @ ]
                /\ pc' = IF Len(levels) = 0 THEN "country_skipped" ELSE "level"
    /\ hist' = Requested(LevelsRequest(CurCountry))
    /\ UNCHANGED opts
    /\ UNCHANGED << fetchVars, rowVars, serveVars >>

\* Line 245: continue
AfterNoLevels_fail == "failed"
AfterNoLevels == "country"

\* Lines 243-246: no level for the country, continue with the next country.
SkipCountry ==
    /\ pc = "country_skipped"
    /\ run' = [ run EXCEPT !.ci = @ + 1 ]
    /\ pc' = AfterNoLevels
    /\ UNCHANGED << opts, now, disk, hist >>
    /\ UNCHANGED << fetchVars, rowVars, serveVars >>

\* The head of the loop over the levels and the skip rule of lines 253-261.
VisitLevel ==
    /\ pc = "level"
    /\ IF run.li > Len(run.levelsForCountry)
       THEN /\ run' = [ run EXCEPT !.ci = @ + 1 ]
            /\ pc' = "country"
            /\ hist' = [ hist EXCEPT !.visit = NoVisit ]
       ELSE LET jsonFile == disk.json[Cur]
                gzFile == disk.gz[Cur]
            IN  /\ hist' = [ hist EXCEPT
                              !.visited = @ \cup {Cur},
                              !.missing = IF Exists(jsonFile) \/ Exists(gzFile)
                                          THEN @ ELSE @ \cup {Cur},
                              !.visit = [ target |-> Cur, active |-> TRUE,
                                          existed |-> Exists(jsonFile) \/ Exists(gzFile),
                                          json |-> jsonFile, gz |-> gzFile,
                                          requested |-> FALSE ] ]
                /\ IF ShouldSkip(missingOnlyMode(opts), jsonFile, gzFile)
                   THEN IF Exists(jsonFile) /\ ~Exists(gzFile)
                        THEN /\ run' = [ run EXCEPT !.content = jsonFile,
                                                    !.caller = "skip" ]
                             /\ pc' = "w_json_open"
                        ELSE /\ run' = run
                             /\ pc' = "skipped"
                   ELSE /\ run' = run
                        /\ pc' = "fetch_direct"
    /\ UNCHANGED << opts, now, disk >>
    /\ UNCHANGED << fetchVars, rowVars, serveVars >>

\* The direct boundary query answers: the record is built (lines 368-385),
\* or the error is handed to the chunk heuristic (lines 274-279).
DirectFetchDone ==
    /\ pc = "fetch_direct"
    /\ now' = now
    /\ LET t == now IN
        /\ \/ /\ run' = [ run EXCEPT
                            !.content = BackupJson(
                                resolveCreatedAt(disk.json[Cur], run.runTimestamp),
                                t, FALSE),
                            !.caller = "direct" ]
              /\ pc' = "w_json_open"
           \/ \E msg \in ErrorMessages :
                IF shouldUseChunkFallback(CurLevel, msg)
                THEN /\ pc' = "fetch_parents"
                     /\ run' = [ run EXCEPT !.caught = msg ]
                ELSE /\ pc' = AfterTargetError
                     /\ run' = [ FailTarget("Failed", CurCountry, CurLevel, 0)
                                   EXCEPT !.caught = msg ]
    /\ hist' = Requested(DirectRequest(CurCountry, CurLevel))
    /\ UNCHANGED << opts, disk >>
    /\ UNCHANGED << fetchVars, rowVars, serveVars >>

\* The parent relations query answers (lines 287-297).
ParentsFetchDone ==
    /\ pc = "fetch_parents"
    /\ now' = now
    /\ LET t == now IN
        /\ \/ /\ pc' = AfterTargetError
              /\ run' = [ Fail("fetch") EXCEPT !.caught = "none" ]
           \/ \E ids \in ParentAnswers :
                IF Len(ids) = 0
                THEN /\ pc' = AfterTargetError
                     /\ run' = [ FailTarget("no parent relations found",
                                            CurCountry, CurLevel,
                                            parentLevel(CurLevel))
                                   EXCEPT !.caught = "none" ]
                ELSE /\ pc' = "fetch_chunk"
                     /\ run' = [ run EXCEPT !.parentRelationIds = ids,
                                            !.parents = Len(ids),
                                            !.chunk = 1, !.caught = "none" ]
    /\ hist' = Requested(ParentsRequest(CurCountry, CurLevel))
    /\ UNCHANGED << opts, disk >>
    /\ UNCHANGED << fetchVars, rowVars, serveVars >>

\* Line 299: i < parentRelationIds.length, after the i++ of chunk chunkIndex
MoreChunks_none(chunkIndex, parents) == FALSE
MoreChunks(chunkIndex, parents) == chunkIndex < parents

\* One chunk query answers: its part file is written; after the last chunk
\* the merged record is built (lines 306-359).
ChunkFetchDone ==
    /\ pc = "fetch_chunk"
    /\ now' = now
    /\ LET t == now IN
        /\ \/ /\ pc' = AfterTargetError
              /\ run' = Fail("fetch")
              /\ disk' = disk
              /\ hist' = Requested(ChunkRequest(run.parentRelationIds[run.chunk], CurLevel))
           \/ /\ disk' = [ disk EXCEPT !.parts[Cur] = @ \cup {run.chunk} ]
              /\ hist' = [ Requested(ChunkRequest(run.parentRelationIds[run.chunk], CurLevel)) EXCEPT !.touched = TRUE ]
              /\ IF MoreChunks(run.chunk, run.parents)
                 THEN /\ run' = [ run EXCEPT !.chunk = @ + 1 ]
                      /\ pc' = "fetch_chunk"
                 ELSE /\ run' = [ run EXCEPT
                                   !.content = BackupJson(
                                       resolveCreatedAt(disk.json[Cur],
                                                        run.runTimestamp),
                                       t, TRUE),
                                   !.caller = "chunk" ]
                      /\ pc' = "w_json_open"
    /\ UNCHANGED opts
    /\ UNCHANGED << fetchVars, rowVars, serveVars >>

\* writeCompressedBackupJson, line 88: the file is opened for writing ...
WriteJsonOpen ==
    /\ pc = "w_json_open"
    /\ disk' = [ disk EXCEPT !.json[Cur] = Truncate(run.content) ]
    /\ hist' = [ hist EXCEPT !.touched = TRUE ]
    /\ pc' = "w_json_write"
    /\ UNCHANGED << opts, now, run >>
    /\ UNCHANGED << fetchVars, rowVars, serveVars >>

\* ... and the content is written.
WriteJsonDone ==
    /\ pc = "w_json_write"
    /\ disk' = [ disk EXCEPT !.json[Cur] = run.content ]
    /\ pc' = "w_gz_open"
    /\ UNCHANGED << opts, now, run, hist >>
    /\ UNCHANGED << fetchVars, rowVars, serveVars >>

\* writeCompressedBackupJson, line 89: the .gz file is opened for writing ...
WriteGzOpen ==
    /\ pc = "w_gz_open"
    /\ disk' = [ disk EXCEPT !.gz[Cur] = Truncate(gzipSync(run.content)) ]
    /\ hist' = [ hist EXCEPT !.touched = TRUE ]
    /\ pc' = "w_gz_write"
    /\ UNCHANGED << opts, now, run >>
    /\ UNCHANGED << fetchVars, rowVars, serveVars >>

\* ... and the compressed content is written.
WriteGzDone ==
    /\ pc = "w_gz_write"
    /\ disk' = [ disk EXCEPT !.gz[Cur] = gzipSync(run.content) ]
    /\ pc' = "w_unlink"
    /\ UNCHANGED << opts, now, run, hist >>
    /\ UNCHANGED << fetchVars, rowVars, serveVars >>

\* writeCompressedBackupJson, line 90: the uncompressed file is removed.
UnlinkJson ==
    /\ pc = "w_unlink"
    /\ disk' = [ disk EXCEPT !.json[Cur] = NoFile ]
    /\ IF run.caller = "skip"
       THEN /\ pc' = "skipped"
            /\ hist' = [ hist EXCEPT !.touched = TRUE ]
       ELSE /\ pc' = "w_raw"
            /\ hist' = [ hist EXCEPT
                          !.touched = TRUE,
                          !.firstCreated[Cur] =
                              IF @ = 0 THEN run.content.created_at ELSE @ ]
    /\ UNCHANGED << opts, now, run >>
    /\ UNCHANGED << fetchVars, rowVars, serveVars >>

\* Lines 362 and 388: the raw side-car is written.
WriteRaw ==
    /\ pc = "w_raw"
    /\ disk' = [ disk EXCEPT !.raw[Cur] = TRUE ]
    /\ hist' = [ hist EXCEPT !.touched = TRUE ]
    /\ pc' = "written"
    /\ UNCHANGED << opts, now, run >>
    /\ UNCHANGED << fetchVars, rowVars, serveVars >>

\* Lines 365 and 391-393: if (options.delayMs > 0) await sleep(options.delayMs)
SleepAfterWrite_none(delayMs) == 0
SleepAfterWrite(delayMs) == IF delayMs > 0 THEN delayMs ELSE 0

\* The iteration ends: the continue of the skip rule (line 260), or the sleep
\* after the record is written and the continue or the end of the loop body.
IterationDone ==
    /\ pc \in {"skipped", "written"}
    /\ run' = [ run EXCEPT !.li = @ + 1, !.content = NoFile, !.caller = "none",
                           !.parents = 0, !.chunk = 1,
                           !.parentRelationIds = << >> ]
    /\ hist' = IF pc = "written"
               THEN [ hist EXCEPT !.slept = @ + SleepAfterWrite(opts.delayMs) ]
               ELSE hist
    /\ pc' = "level"
    /\ UNCHANGED << opts, now, disk >>
    /\ UNCHANGED << fetchVars, rowVars, serveVars >>

\* Line 397: missingOnlyMode && levelsCatalogChanged
ShouldSaveCatalog_always(missingOnly, levelsCatalogChanged) == missingOnly
ShouldSaveCatalog(missingOnly, levelsCatalogChanged) ==
    missingOnly /\ levelsCatalogChanged

\* Lines 397-400: the catalog is saved when the run changed it.
FinishRun ==
    /\ pc = "finish"
    /\ IF ShouldSaveCatalog(missingOnlyMode(opts), run.levelsCatalogChanged)
       THEN /\ disk' = [ disk EXCEPT !.catalog =
                          saveCountryLevelsCatalog(disk.catalog,
                                                   run.levelsByCountry,
                                                   run.runTimestamp, now) ]
            /\ hist' = [ hist EXCEPT !.touched = TRUE ]
       ELSE UNCHANGED << disk, hist >>
    /\ pc' = "done"
    /\ UNCHANGED << opts, now, run >>
    /\ UNCHANGED << fetchVars, rowVars, serveVars >>

\* The process is terminated from outside.
Kill ==
    /\ pc \notin {"idle", "done", "failed", "off"}
    /\ hist.kills < MaxKills
    /\ pc' = "idle"
    /\ run' = RunIdle
    /\ hist' = [ hist EXCEPT !.kills = @ + 1, !.visit = NoVisit,
                             !.log = << >>, !.slept = 0,
                             !.unsaved = IF missingOnlyMode(opts)
                                         THEN DiscoveredIn(hist.log) ELSE @ ]
    /\ UNCHANGED << opts, now, disk >>
    /\ UNCHANGED << fetchVars, rowVars, serveVars >>

Next ==
    \/ StartRun
    \/ ResolveCountries
    \/ CountriesFetchDone
    \/ CountriesFallbackDone
    \/ NextCountry
    \/ LevelsFetchDone
    \/ SkipCountry
    \/ VisitLevel
    \/ DirectFetchDone
    \/ ParentsFetchDone
    \/ ChunkFetchDone
    \/ WriteJsonOpen
    \/ WriteJsonDone
    \/ WriteGzOpen
    \/ WriteGzDone
    \/ UnlinkJson
    \/ WriteRaw
    \/ IterationDone
    \/ FinishRun
    \/ Kill

Spec == RunInit /\ [][Next]_vars

\* A run starts in this step.
RunStarts == hist'.runs = hist.runs + 1

NoCountryOption == ~opts'.allCountries /\ opts'.countries = << >>

NoLevelOption == ~opts'.allLevels /\ opts'.levels = << >>

\* C15: a run started with neither countries nor the all-countries flag, or
\* with neither levels nor the all-levels flag, fails at once with the
\* configuration error: nothing is requested and the output directory and its
\* files are as they were, the directory not being created; a run with valid
\* options does not fail that way.
C15_ConfigErrorFirst ==
    [][ RunStarts =>
          IF NoCountryOption \/ NoLevelOption
          THEN /\ pc' = "failed"
               /\ run'.error.text = "config"
               /\ disk' = disk
               /\ hist'.log = << >>
               /\ ~hist'.requested
               /\ ~hist'.touched
          ELSE pc' # "failed" ]_vars

\* The first run, started without levels, has failed and there is still no
\* output directory.
C15_Witness ==
    /\ pc = "failed"
    /\ run.error.text = "config"
    /\ opts.countries # << >>
    /\ opts.levels = << >>
    /\ ~opts.allLevels
    /\ ~disk.dir

\* An error is thrown in this step of a running process.
ErrorThrown == run.error.text = "none" /\ run'.error.text # "none" /\ ~RunStarts

\* C16: when a target fails (its direct fetch without fallback, its parent
\* relations query or one of its chunk fetches) the run stops: the step that
\* throws changes no file, and nothing happens afterwards until a new run is
\* started, so that no later target is fetched or written and the records
\* written earlier in the run stay as they are.
C16_TargetErrorStopsRun ==
    [][ /\ ErrorThrown => (pc' = "failed" /\ disk' = disk)
        /\ pc = "failed" => (RunStarts /\ disk' \in {disk, [ disk EXCEPT !.dir = TRUE ]}) ]_vars

\* The run wrote the record of its first target, failed on the second one
\* and left the targets of the next country unvisited.
C16_Witness ==
    /\ pc = "failed"
    /\ run.error.text \in {"Failed", "fetch", "no parent relations found"}
    /\ Len(run.countryCodes) = 2
    /\ run.ci = 1
    /\ run.li = 2
    /\ hist.visited = { << "EE", 2 >>, << "EE", 9 >> }
    /\ disk.gz[<< "EE", 2 >>].st = "full"
    /\ disk.gz[<< "EE", 2 >>].refreshed_at = now
    /\ ~Exists(disk.gz[<< "LV", 2 >>])

\* C17: once the backup of a (country, level) has succeeded, the directory
\* holds no <CC>_L<level>.raw.json for it and, when the record was merged from
\* chunks, none of its <CC>_L<level>.raw.part<N>.json files.  (runBackup never
\* reads options.saveRaw: every run behaves as a run with the default.)
C17_NoRawFilesKept ==
    pc = "written" =>
        /\ ~disk.raw[Cur]
        /\ run.caller = "chunk" => disk.parts[Cur] = {}

\* writeCompressedBackupJson has returned for the current target.
WriteReturned ==
    \/ pc \in {"w_raw", "written"}
    \/ pc = "skipped" /\ run.caller = "skip"

\* C18: after every successful write of the record of (country, level) the
\* file <CC>_L<level>.json.gz exists, <CC>_L<level>.json does not, and the
\* .json.gz is the gzip of the text that was written as the intermediate:
\* decompressing it gives that text; a record built by the run is complete.
C18_OnlyCompressedArtifact ==
    WriteReturned =>
        /\ Exists(disk.gz[Cur])
        /\ ~Exists(disk.json[Cur])
        /\ disk.gz[Cur].enc = "gzip"
        /\ run.content.enc = "utf8"
        /\ gunzipSync(disk.gz[Cur]) = run.content
        /\ run.caller \in {"direct", "chunk"} => run.content.st = "full"

\* A record fetched directly has been written over the files of an earlier
\* run.
C18_Witness ==
    /\ pc = "w_raw"
    /\ run.caller = "direct"
    /\ hist.visit.active
    /\ Exists(hist.visit.gz)
    /\ disk.gz[Cur] # hist.visit.gz

(***************************************************************************)
(* One iteration of the level loop of runBackup, for every admin level     *)
(***************************************************************************)
FallbackLevels == 1..MaxLevel

FallbackTargets == {"EE"} \X FallbackLevels

\* runBackup({ countries: ["EE"], levels: [level] }) on an empty directory,
\* at the head of the level loop.
FallbackInit ==
    /\ pc = "level"
    /\ now = 1
    /\ \E level \in FallbackLevels :
        /\ opts = [ NoOptions EXCEPT !.countries = << "EE" >>,
                                     !.levels = << level >> ]
        /\ run = [ RunIdle EXCEPT !.runTimestamp = 1,
                                  !.countryCodes = << "EE" >>,
                                  !.levelsForCountry = << level >> ]
    /\ disk = [ EmptyDiskOver(FallbackTargets) EXCEPT !.dir = TRUE ]
    /\ hist = [ HistInit EXCEPT !.runs = 1,
                                !.firstCreated = [ t \in FallbackTargets |-> 0 ] ]
    /\ FetchOff
    /\ ServeOff
    /\ RowsOff

FallbackNext ==
    \/ VisitLevel
    \/ DirectFetchDone
    \/ ParentsFetchDone
    \/ ChunkFetchDone
    \/ WriteJsonOpen
    \/ WriteJsonDone
    \/ WriteGzOpen
    \/ WriteGzDone
    \/ UnlinkJson
    \/ WriteRaw
    \/ IterationDone

SpecFallback == FallbackInit /\ [][FallbackNext]_vars

SizePatterns ==
    { "Cannot create a string longer than", "Invalid string length",
      "heap out of memory" }

\* C12: when the direct fetch of (country, level) has failed, the run goes on
\* with the parent relations query exactly when level > 2 and (the error text
\* holds a size pattern or level >= 8); otherwise the run has failed with the
\* error of that target and the direct request is the only request issued.
C12_FallbackRule ==
    run.caught # "none" =>
        /\ pc \in {"fetch_parents", "failed"}
        /\ pc = "fetch_parents"
              <=> (CurLevel > 2 /\ (run.caught \in SizePatterns \/ CurLevel >= 8))
        /\ pc = "failed"
              => /\ run.error = [ text |-> "Failed", country |-> CurCountry,
                                  level |-> CurLevel, parentLevel |-> 0 ]
                 /\ hist.log = << DirectRequest(CurCountry, CurLevel) >>
                 /\ disk.parts[Cur] = {}

\* The direct fetch of a level between 3 and 7 failed with a size error and
\* the parent relations are queried.
C12_Witness ==
    /\ pc = "fetch_parents"
    /\ CurLevel \in 3..7
    /\ run.caught = "heap out of memory"

\* The chunk requests answered so far in the chunked fallback of the
\* current target.
ChunksAnswered ==
    IF pc = "fetch_chunk" THEN run.chunk - 1 ELSE Len(run.parentRelationIds)

ExpectedParentLevel(level) == IF level <= 4 THEN 2 ELSE level - 2

\* C13: in chunked fallback for level L the parent relations are queried at
\* level max(2, L - 2), level 9 giving 7; the chunk requests follow, one per
\* parent relation id and in the order of the list, and the part file of a
\* chunk is on disk before the request of the next chunk.
C13_ChunkSequence ==
    (pc = "fetch_chunk" \/ run.caller = "chunk") =>
        /\ Len(run.parentRelationIds) > 0
        /\ hist.log =
              << DirectRequest(CurCountry, CurLevel),
                 [ query |-> "buildParentRelationsQuery", country |-> CurCountry,
                   level |-> ExpectedParentLevel(CurLevel), id |-> 0 ] >>
              \o [ i \in 1..ChunksAnswered |->
                     [ query |-> "buildOverpassQueryForParentRelation",
                       country |-> Null, level |-> CurLevel,
                       id |-> run.parentRelationIds[i] ] ]
        /\ disk.parts[Cur] = 1..ChunksAnswered
        /\ CurLevel = 9 => hist.log[2].level = 7

\* The chunked fallback of a level 9 target with two parent relations has
\* written its record.
C13_Witness ==
    /\ pc = "written"
    /\ run.caller = "chunk"
    /\ CurLevel = 9
    /\ Len(run.parentRelationIds) = 2
    /\ Len(hist.log) = 4

\* The run has stopped on the answer to the parent relations query.
FailedOnParents ==
    /\ pc = "failed"
    /\ Len(hist.log) > 0
    /\ Last(hist.log).query = "buildParentRelationsQuery"

\* C14: when the parent relations query yields no relation id the run fails
\* with an error that names the country, the level and the parent level that
\* was tried; no chunk request has been issued and the target has no backup
\* record, no raw file and no part file.
C14_NoParentsIsFatal ==
    FailedOnParents =>
        /\ run.error.text \in {"fetch", "no parent relations found"}
        /\ run.error.text = "no parent relations found"
              => run.error = [ text |-> "no parent relations found",
                               country |-> CurCountry, level |-> CurLevel,
                               parentLevel |-> ExpectedParentLevel(CurLevel) ]
        /\ \A i \in 1..Len(hist.log) :
              hist.log[i].query # "buildOverpassQueryForParentRelation"
        /\ ~Exists(disk.json[Cur])
        /\ ~Exists(disk.gz[Cur])
        /\ ~disk.raw[Cur]
        /\ disk.parts[Cur] = {}

\* The parent relations query of a level 9 target returned no relation id.
C14_Witness ==
    /\ FailedOnParents
    /\ run.error.text = "no parent relations found"
    /\ CurLevel = 9
    /\ run.error.parentLevel = 7

\* The run has stopped in the iteration of a target.
FailedOnTarget == pc = "failed" /\ hist.visit.active

\* C23: an error that ends the run inside the iteration of a (country, level)
\* target names that country and that level in its message, whichever request
\* of the iteration failed.
C23_ErrorNamesTarget ==
    FailedOnTarget =>
        /\ run.error.country = hist.visit.target[1]
        /\ run.error.level = hist.visit.target[2]

(***************************************************************************)
(* loadCountryLevelsCatalog over the contents of country-levels.json        *)
(***************************************************************************)

MaxEntries == 2

MaxItems == 2

\* Keys of levels_by_country as the file spells them.
RawKeys == { "EE", "ee", " lv ", "EST" }

\* Values found in a level list of the file.
RawItems ==
    { JsonInt(2), JsonInt(9), JsonInt(0), JsonNumericString(2), JsonFraction }

RawEntries ==
    { CatalogEntry(key, items) : key \in RawKeys, items \in SeqsUpTo(RawItems, MaxItems) }
    \cup { NotAnArray(key) : key \in RawKeys }

\* The keys of a JSON object are distinct.
DistinctKeys(es) == \A i, j \in 1..Len(es) : i # j => es[i].key # es[j].key

\* No file, a file that cannot be read, a file that does not parse.
BrokenFiles ==
    { [ NoCatalogFile EXCEPT !.st = st ] : st \in { "none", "unreadable", "partial" } }

CatalogInit ==
    /\ pc = "catalog"
    /\ opts = [ NoOptions EXCEPT !.allCountries = TRUE, !.allLevels = TRUE ]
    /\ now = 0
    /\ \/ \E file \in BrokenFiles :
              disk = [ EmptyDisk EXCEPT !.dir = TRUE, !.catalog = file ]
       \/ \E k \in 0..MaxEntries : \E es \in [ 1..k -> RawEntries ] :
              /\ DistinctKeys(es)
              /\ disk = [ EmptyDisk EXCEPT
                            !.dir = TRUE,
                            !.catalog = [ st |-> "full", created_at |-> 0,
                                          refreshed_at |-> 0,
                                          levels_by_country |-> es ] ]
    /\ run = RunIdle
    /\ hist = HistInit
    /\ FetchOff
    /\ ServeOff
    /\ RowsOff

\* Line 170 in full-sweep mode.
LoadCatalog ==
    /\ pc = "catalog"
    /\ pc' = "loaded"
    /\ run' = [ run EXCEPT
                  !.levelsByCountry = loadCountryLevelsCatalog(disk.catalog) ]
    /\ UNCHANGED << opts, now, disk, hist >>
    /\ UNCHANGED << fetchVars, rowVars, serveVars >>

CatalogNext == LoadCatalog

SpecCatalog == CatalogInit /\ [][CatalogNext]_vars

\* The entries of the file that give the country c a level list: the key
\* normalises to c, the value is an array, and it holds a positive integer.
GoodEntries(entries, c) ==
    { i \in 1..Len(entries) :
        /\ Trim(ToUpperCase(entries[i].key)) = c
        /\ entries[i].array
        /\ \E k \in 1..Len(entries[i].items) :
              Number(entries[i].items[k]).kind = "int"
              /\ Number(entries[i].items[k]).n > 0 }

PositiveLevelsOf(entry) ==
    { Number(entry.items[k]).n :
        k \in { j \in 1..Len(entry.items) :
                  Number(entry.items[j]).kind = "int" /\ Number(entry.items[j]).n > 0 } }

LastIndex(S) == CHOOSE i \in S : \A j \in S : j <= i

\* C19: whatever country-levels.json holds, the map loadCountryLevelsCatalog
\* returns has only 2-letter uppercase country codes as keys and only
\* non-empty, strictly ascending lists of positive integers as values; a
\* country has a key exactly when some entry of the file is valid for it, its
\* list being the positive integers of the last such entry, whatever the other
\* entries are; a missing, unreadable or unparsable file gives the empty map.
C19_LoadedCatalogIsValid ==
    pc = "loaded" =>
        LET out == run.levelsByCountry
            file == disk.catalog
        IN  /\ \A c \in DOMAIN out :
                  /\ c \in Countries
                  /\ Len(out[c]) > 0
                  /\ \A i \in 1..Len(out[c]) : out[c][i] \in Nat /\ out[c][i] > 0
                  /\ \A i, j \in 1..Len(out[c]) : i < j => out[c][i] < out[c][j]
            /\ file.st # "full" => DOMAIN out = {}
            /\ file.st = "full" =>
                  \A c \in Countries :
                      LET good == GoodEntries(file.levels_by_country, c)
                      IN  /\ c \in DOMAIN out <=> good # {}
                          /\ good # {} =>
                                { out[c][i] : i \in 1..Len(out[c]) }
                                = PositiveLevelsOf(file.levels_by_country[LastIndex(good)])

\* A file with a usable entry (lower-case key, unsorted list with a
\* non-positive value) next to an entry with a key that is no country code.
C19_Witness ==
    /\ pc = "loaded"
    /\ disk.catalog.st = "full"
    /\ disk.catalog.levels_by_country
         = << CatalogEntry("EST", << JsonInt(2) >>),
              CatalogEntry("ee", << JsonInt(9), JsonInt(0) >>) >>
    /\ DOMAIN run.levelsByCountry = { "EE" }
    /\ run.levelsByCountry["EE"] = << 9 >>

\* The catalog as the run in progress loaded it: no step before the end of
\* the run writes country-levels.json.
LoadedCatalog == loadCountryLevelsCatalog(disk.catalog)

\* The countries the run has sent a level discovery query for.
Discovered ==
    { hist.log[i].country :
        i \in { j \in 1..Len(hist.log) :
                  hist.log[j].query = "buildCountryLevelsQuery" } }

FullSweepRun ==
    /\ missingOnlyMode(opts)
    /\ pc \notin { "idle", "done", "failed", "off", "catalog", "loaded" }

\* The level list of the current country has been chosen.
LevelsChosen == pc = "country" /\ pc' \in { "level", "country_skipped" }

LevelsAnswered == pc = "fetch_levels" /\ pc' \in { "level", "country_skipped" }

C20_CatalogStep ==
    /\ FullSweepRun /\ LevelsChosen =>
          /\ CurCountry \in DOMAIN LoadedCatalog
          /\ run'.levelsForCountry = LoadedCatalog[CurCountry]
          /\ hist'.log = hist.log
    /\ FullSweepRun /\ pc = "country" /\ pc' = "fetch_levels" =>
          CurCountry \notin DOMAIN LoadedCatalog
    /\ FullSweepRun /\ LevelsAnswered =>
          /\ hist'.log = Append(hist.log, LevelsRequest(CurCountry))
          /\ CurCountry \in DOMAIN run'.levelsByCountry
          /\ run'.levelsByCountry[CurCountry] = run'.levelsForCountry
    /\ FullSweepRun /\ pc = "finish" /\ pc' = "done" =>
          /\ disk'.catalog # disk.catalog <=> Discovered # {}
          /\ Discovered # {} =>
                /\ disk'.catalog.st = "full"
                /\ disk'.catalog.refreshed_at = now
                /\ \A c \in Discovered :
                      \E i \in 1..Len(disk'.catalog.levels_by_country) :
                          disk'.catalog.levels_by_country[i]
                          = CatalogEntry(c, [ k \in 1..Len(run.levelsByCountry[c]) |->
                                                JsonInt(run.levelsByCountry[c][k]) ])
    /\ FullSweepRun /\ pc # "finish" => disk'.catalog = disk.catalog

\* C20: in a run with all countries and all levels, a country that the
\* loaded catalog holds gets no level discovery query and its level list is
\* the cataloged one; a country the catalog does not hold is queried and the
\* answer is put into the catalog of the run; country-levels.json is written
\* by the last step of the run, with the discovered lists, exactly when the
\* run sent a discovery query, and by no other step.
C20_CatalogUse == [][C20_CatalogStep]_vars

\* A second full sweep has ended: EE came from the catalog without a query,
\* LV was discovered again, and the catalog file was written in this run.
C20_Witness ==
    /\ pc = "done"
    /\ missingOnlyMode(opts)
    /\ hist.runs = 2
    /\ Discovered = { "LV" }
    /\ << "EE", 2 >> \in hist.visited
    /\ disk.catalog.st = "full"
    /\ disk.catalog.refreshed_at = now
    /\ disk.catalog.created_at < now

\* The chunk requests the run has issued for the target of the visit.
ChunkRequestsOfVisit ==
    { i \in 1..Len(hist.log) :
        /\ hist.log[i].query = "buildOverpassQueryForParentRelation"
        /\ \A j \in i..Len(hist.log) :
              hist.log[j].query = "buildOverpassQueryForParentRelation" }

\* The chunked fallback of the visited target is under way or has failed.
InChunkedFallback ==
    /\ hist.visit.active
    /\ \/ pc \in { "fetch_parents", "fetch_chunk" }
       \/ /\ pc = "failed"
          /\ Len(hist.log) > 0
          /\ Last(hist.log).query \in { "buildParentRelationsQuery",
                                        "buildOverpassQueryForParentRelation" }

\* The merged record of the chunked fallback is being written.
WritingChunkedRecord ==
    /\ hist.visit.active
    /\ run.caller = "chunk"
    /\ pc \in { "w_json_open", "w_json_write", "w_gz_open", "w_gz_write",
                "w_unlink", "w_raw", "written" }

\* C29: while the chunked fallback of a target runs, and when its parent
\* query or one of its chunk queries has failed, the .json and .json.gz of
\* the target are what they were when the iteration began, and the part files
\* of the chunks answered before are on disk; the merged record is written
\* only when every parent has had its chunk request answered.
C29_RecordAfterAllChunks ==
    /\ InChunkedFallback =>
          /\ disk.json[hist.visit.target] = hist.visit.json
          /\ disk.gz[hist.visit.target] = hist.visit.gz
          /\ pc \in { "fetch_chunk", "failed" } =>
                \A k \in 1..(Cardinality(ChunkRequestsOfVisit)
                             - (IF pc = "failed" THEN 1 ELSE 0)) :
                    k \in disk.parts[hist.visit.target]
    /\ WritingChunkedRecord =>
          /\ Len(run.parentRelationIds) > 0
          /\ Cardinality(ChunkRequestsOfVisit) = Len(run.parentRelationIds)
          /\ \A k \in 1..Len(run.parentRelationIds) :
                k \in disk.parts[hist.visit.target]

\* The second chunk request of a target failed: the record an earlier run
\* wrote is still there, and so is the part file of the first chunk, which
\* this run wrote.
C29_Witness ==
    /\ InChunkedFallback
    /\ pc = "failed"
    /\ Cardinality(ChunkRequestsOfVisit) = 2
    /\ hist.visit.existed
    /\ Exists(hist.visit.gz)
    /\ disk.gz[hist.visit.target] = hist.visit.gz
    /\ disk.gz[hist.visit.target].created_at < now
    /\ 1 \in disk.parts[hist.visit.target]
    /\ 2 \notin disk.parts[hist.visit.target]

\* The requests of the log that fetch boundaries of the country.
BoundaryRequestsFor(countryCode) ==
    { i \in 1..Len(hist.log) :
        /\ hist.log[i].query = "buildOverpassQuery"
        /\ hist.log[i].country = countryCode }

C27_SkipStep ==
    /\ /\ pc \in { "country", "fetch_levels" }
       /\ pc' \in { "level", "country_skipped" }
       /\ run'.levelsForCountry = << >>
       => pc' = "country_skipped"
    /\ pc = "country_skipped" /\ pc' # "idle" =>
          /\ run.levelsForCountry = << >>
          /\ BoundaryRequestsFor(CurCountry) = {}
          /\ \A t \in hist.visited : t[1] # CurCountry
          /\ disk' = disk
          /\ hist'.log = hist.log
          /\ pc' = "country"
          /\ run'.ci = run.ci + 1
          /\ run'.error = NoFailure

\* C27: a country whose level list is empty is skipped: the run issues no
\* boundary request for it, visits none of its targets and writes no file in
\* the step that skips it, and goes on to the next country without an error.
C27_EmptyLevelsSkipCountry == [][C27_SkipStep]_vars

\* A run over EE and LV has ended: the discovery of EE gave no level, EE has
\* no file, and LV was backed up after it.
C27_Witness ==
    /\ pc = "done"
    /\ hist.runs = 1
    /\ run.countryCodes = << "EE", "LV" >>
    /\ Len(hist.log) > 0
    /\ hist.log[1] = LevelsRequest("EE")
    /\ BoundaryRequestsFor("EE") = {}
    /\ \A l \in LevelsUniverse :
          ~Exists(disk.gz[<< "EE", l >>]) /\ ~Exists(disk.json[<< "EE", l >>])
    /\ hist.visited = { << "LV", 2 >>, << "LV", 9 >> }
    /\ Exists(disk.gz[<< "LV", 2 >>])

\* The codes of the country list of the run.
CountriesOfRun == { run.countryCodes[i] : i \in 1..Len(run.countryCodes) }

C24_OutsideFullSweepStep ==
    ~missingOnlyMode(opts') =>
        /\ ~hist'.catalogRead
        /\ disk'.catalog = disk.catalog
        /\ run'.levelsByCountry = NoLevels
        /\ opts.allLevels /\ pc = "country" /\ pc' \notin { "idle", "finish" }
              => pc' = "fetch_levels"
        /\ opts.allLevels /\ pc = "finish" /\ pc' = "done"
              => Discovered = CountriesOfRun

\* C24: a run that is not a full sweep (all countries and all levels) does
\* not read country-levels.json and no step of it changes the file; with all
\* levels it sends the level discovery query for each country its loop
\* reaches, so that a run that ends has queried every country of its list.
C24_CatalogOnlyInFullSweep == [][C24_OutsideFullSweepStep]_vars

\* A run with --countries and --all-levels has ended on a directory whose
\* catalog an earlier full sweep wrote: both countries were queried although
\* the catalog lists them, and the catalog file is the one of the earlier run.
C24_Witness ==
    /\ pc = "done"
    /\ ~opts.allCountries
    /\ opts.allLevels
    /\ ~hist.catalogRead
    /\ disk.catalog.st = "full"
    /\ disk.catalog.refreshed_at < now
    /\ DOMAIN loadCountryLevelsCatalog(disk.catalog) = { "EE", "LV" }
    /\ Discovered = { "EE", "LV" }

\* A full sweep ends in this step without reaching its end: an error leaves
\* runBackup, or the process is terminated.
SweepAborts ==
    /\ missingOnlyMode(opts)
    /\ pc \notin { "idle", "done", "failed" }
    /\ pc' \in { "idle", "failed" }

\* The next process starts in this step, as a full sweep.
SweepStarts ==
    /\ RunStarts
    /\ missingOnlyMode(opts')
    /\ pc' = "countries"

C30_CatalogStep ==
    /\ disk'.catalog # disk.catalog => pc = "finish" /\ pc' = "done"
    /\ SweepAborts =>
          /\ disk'.catalog = disk.catalog
          /\ (DiscoveredIn(hist.log) \cup DiscoveredIn(hist'.log))
             \cap DOMAIN loadCountryLevelsCatalog(disk'.catalog) = {}
          /\ pc' = "idle" => hist'.unsaved = DiscoveredIn(hist.log)
    /\ SweepStarts =>
          /\ pc = "failed" /\ missingOnlyMode(opts)
                => hist'.unsaved = DiscoveredIn(hist.log)
          /\ hist'.unsaved \cap DOMAIN run'.levelsByCountry = {}
    /\ /\ missingOnlyMode(opts)
       /\ pc = "country"
       /\ pc' \notin { "idle", "finish" }
       /\ CurCountry \in hist.unsaved
       => pc' = "fetch_levels"

\* C30: only the last step of a run that reaches its end changes
\* country-levels.json.  When a full sweep is ended by an error or from
\* outside, the file is as the run found it and holds none of the countries
\* the run had discovered; the next full sweep loads a catalog without them
\* and sends the discovery query for each of them its loop reaches.
C30_CatalogOnlyAtEnd == [][C30_CatalogStep]_vars

\* The second full sweep has sent the discovery query for EE, whose levels
\* the first one had discovered before a boundary fetch ended it.
C30_Witness ==
    /\ hist.runs = 2
    /\ hist.kills = 0
    /\ missingOnlyMode(opts)
    /\ hist.unsaved = { "EE" }
    /\ pc \in { "level", "country_skipped" }
    /\ Len(hist.log) > 0
    /\ Last(hist.log) = LevelsRequest("EE")
    /\ disk.catalog.st = "none"
    /\ Exists(disk.countries)

\* The countries country-levels.json holds with an empty level list.
SavedEmpty(file) ==
    IF file.st # "full" THEN {}
    ELSE { file.levels_by_country[i].key :
             i \in { j \in 1..Len(file.levels_by_country) :
                       /\ file.levels_by_country[j].array
                       /\ file.levels_by_country[j].items = << >> } }

\* The countries of the list of the run.
CountryCodesOfRun == { run.countryCodes[i] : i \in 1..Len(run.countryCodes) }

CatalogSaved == pc = "finish" /\ pc' = "done" /\ disk'.catalog # disk.catalog

C31_ReloadStep ==
    /\ CatalogSaved =>
          LET saved == run.levelsByCountry
              loaded == loadCountryLevelsCatalog(disk'.catalog)
          IN  /\ DOMAIN loaded = { c \in DOMAIN saved : Len(saved[c]) > 0 }
              /\ \A c \in DOMAIN loaded : loaded[c] = saved[c]
              /\ SavedEmpty(disk'.catalog) = { c \in DOMAIN saved : saved[c] = << >> }
    /\ pc # "countries" /\ pc' = "countries" /\ missingOnlyMode(opts') =>
          DOMAIN run'.levelsByCountry \cap SavedEmpty(disk.catalog) = {}
    /\ ( /\ FullSweepRun /\ pc = "country"
         /\ run.ci <= Len(run.countryCodes)
         /\ CurCountry \in SavedEmpty(disk.catalog) ) =>
          pc' \in { "fetch_levels", "idle" }
    /\ ( /\ FullSweepRun /\ pc = "finish" /\ pc' = "done"
         /\ CountryCodesOfRun \cap SavedEmpty(disk.catalog) # {} ) =>
          /\ CountryCodesOfRun \cap SavedEmpty(disk.catalog) \subseteq Discovered
          /\ disk'.catalog # disk.catalog
          /\ disk'.catalog.refreshed_at = now

\* C31: the catalog file a run saves loads as the saved map without the
\* countries whose list is empty; a later run with all countries and all
\* levels does not find such a country in the catalog it loads, sends the
\* level discovery query for it when it reaches it, and writes
\* country-levels.json again when it ends.
C31_EmptyListNotCataloged == [][C31_ReloadStep]_vars

\* A second full sweep has ended: LV was saved with an empty list by the
\* first one, was queried again, and the file was written again.
C31_Witness ==
    /\ pc = "done"
    /\ missingOnlyMode(opts)
    /\ hist.runs = 2
    /\ "LV" \in Discovered
    /\ "LV" \in SavedEmpty(disk.catalog)
    /\ "EE" \in DOMAIN loadCountryLevelsCatalog(disk.catalog)
    /\ disk.catalog.refreshed_at = now
    /\ disk.catalog.created_at < now

\* A complete backup record of the target is on disk, as the .json or as the
\* .json.gz file; every record names <CC>_L<level>.raw.json.
RecordOnDisk(target) ==
    disk.json[target].st = "full" \/ disk.gz[target].st = "full"

\* C32: whenever a complete backup record is on disk, the raw response file
\* it names is on disk too.
C32_SideCarPresent ==
    \A target \in Targets : RecordOnDisk(target) => disk.raw[target]

\* An all-countries query has answered in this step and the run has its
\* country list from the answer.
CountriesResolvedByQuery ==
    /\ opts.allCountries
    /\ pc \in { "fetch_countries", "fetch_countries_fallback" }
    /\ pc' = "country"

C25_CountriesStep ==
    CountriesResolvedByQuery =>
        IF missingOnlyMode(opts) /\ Exists(disk.countries)
        THEN disk'.countries = disk.countries
        ELSE /\ disk'.countries.st = "full"
             /\ disk'.countries.codes = run'.countryCodes
             /\ disk'.countries.created_at =
                   IF disk.countries.st = "full"
                   THEN disk.countries.created_at
                   ELSE run.runTimestamp

\* C25: when an all-countries run takes its country list from the answer of
\* the all-countries query, countries.json then holds the countries of that
\* list and the created_at the file had before, if it had one; the file stays
\* as it was only in a full sweep that found it present.
C25_CountriesFileWritten == [][C25_CountriesStep]_vars

(***************************************************************************)
(* The country list of a full sweep, over the contents of countries.json   *)
(***************************************************************************)

MaxCodes == 3

\* countries.json as a full sweep can find it: absent, not parsable, or with
\* up to MaxCodes country_code values as the file spells them.
CountriesFiles ==
    { [ NoCountriesFile EXCEPT !.st = st ] : st \in { "none", "partial" } }
    \cup { [ st |-> "full", created_at |-> 0, refreshed_at |-> 0, codes |-> codes ] :
             codes \in SeqsUpTo(RawKeys, MaxCodes) }

LocalInit ==
    /\ pc = "countries"
    /\ opts = [ NoOptions EXCEPT !.allCountries = TRUE, !.allLevels = TRUE ]
    /\ now = 1
    /\ disk \in { [ EmptyDisk EXCEPT !.dir = TRUE, !.countries = file ] :
                    file \in CountriesFiles }
    /\ run = [ RunIdle EXCEPT !.runTimestamp = 1 ]
    /\ hist = [ HistInit EXCEPT !.runs = 1, !.catalogRead = TRUE ]
    /\ FetchOff
    /\ ServeOff
    /\ RowsOff

LocalNext ==
    \/ ResolveCountries
    \/ CountriesFetchDone
    \/ CountriesFallbackDone

SpecLocal == LocalInit /\ [][LocalNext]_vars

RECURSIVE ValidCodesOf(_)
\* The 2-letter codes among the country_code values, in the order of the file.
ValidCodesOf(codes) ==
    IF codes = << >> THEN << >>
    ELSE LET code == Trim(ToUpperCase(Head(codes)))
         IN  (IF code \in Countries THEN << code >> ELSE << >>)
             \o ValidCodesOf(Tail(codes))

LocalCodes ==
    IF disk.countries.st = "full" THEN ValidCodesOf(disk.countries.codes) ELSE << >>

AllCountriesRequests(log) ==
    { i \in 1..Len(log) : log[i].query = "buildAllCountriesQuery" }

C26_LocalStep ==
    /\ /\ pc = "countries" /\ missingOnlyMode(opts) /\ Exists(disk.countries)
       /\ pc' # "idle"
       =>
          /\ hist'.log = hist.log
          /\ disk' = disk
          /\ IF LocalCodes # << >>
             THEN pc' = "country" /\ run'.countryCodes = LocalCodes
             ELSE pc' = "fetch_countries_fallback"
    /\ pc = "fetch_countries_fallback" /\ pc' # "idle" =>
          /\ LocalCodes = << >> \/ ~(missingOnlyMode(opts) /\ Exists(disk.countries))
          /\ pc' \in { "country", "failed" }
          /\ pc' = "country" => run'.countryCodes # << >>
          /\ pc' = "failed" => run'.error.text \in { "fetch", "no_countries" }
    /\ /\ missingOnlyMode(opts)
       /\ pc' = "country"
       /\ AllCountriesRequests(hist'.log) = {}
       => Exists(disk.countries) /\ run'.countryCodes = LocalCodes

\* C26: a full sweep that finds countries.json takes as its country list the
\* valid 2-letter codes of the file, upper-cased and trimmed, in the order of
\* the file, and sends no all-countries query; it sends the query only when
\* the file gives no valid code, and it fails when the answer gives none
\* either: the country loop never starts on an empty list.
C26_LocalCountryList == [][C26_LocalStep]_vars

\* A file with a padded lower-case code, a 3-letter code and a lower-case
\* code: the list is LV, EE and no request was sent.
C26_Witness ==
    /\ pc = "country"
    /\ disk.countries.st = "full"
    /\ disk.countries.codes = << " lv ", "EST", "ee" >>
    /\ run.countryCodes = << "LV", "EE" >>
    /\ hist.log = << >>

(***************************************************************************)
(* One run of runBackup with and without a delay                            *)
(***************************************************************************)

\* A directory an earlier run has left: countries.json, a catalog with EE,
\* the compressed record of (EE, 2) and the uncompressed record of (EE, 9).
PartlyDoneDisk ==
    [ EmptyDisk EXCEPT
        !.dir = TRUE,
        !.countries = [ st |-> "full", created_at |-> 1, refreshed_at |-> 1,
                        codes |-> << "EE", "LV" >> ],
        !.countriesRaw = TRUE,
        !.catalog = saveCountryLevelsCatalog(NoCatalogFile,
                                             SetEntry(NoLevels, "EE", << 2, 9 >>),
                                             1, 1),
        !.gz[<< "EE", 2 >>] = gzipSync(BackupJson(1, 1, FALSE)),
        !.raw[<< "EE", 2 >>] = TRUE,
        !.json[<< "EE", 9 >>] = BackupJson(1, 1, FALSE) ]

PaceDisks == { [ EmptyDisk EXCEPT !.dir = TRUE ], PartlyDoneDisk }

PaceOptions == { o \in OptionsWith({ 0, DefaultDelayMs }) : ~InvalidOptions(o) }

\* The state of a run after line 171.
PaceInit ==
    /\ pc = "countries"
    /\ opts \in PaceOptions
    /\ now = 2
    /\ disk \in PaceDisks
    /\ run = [ RunIdle EXCEPT
                 !.runTimestamp = 2,
                 !.levelsByCountry =
                     IF ReadsCatalog(missingOnlyMode(opts))
                     THEN loadCountryLevelsCatalog(disk.catalog)
                     ELSE NoLevels ]
    /\ hist = [ HistInit EXCEPT
                  !.runs = 1,
                  !.covered = CoveredDirectory(disk),
                  !.catalogRead = ReadsCatalog(missingOnlyMode(opts)) ]
    /\ FetchOff
    /\ ServeOff
    /\ RowsOff

PaceNext ==
    \/ ResolveCountries
    \/ CountriesFetchDone
    \/ CountriesFallbackDone
    \/ NextCountry
    \/ LevelsFetchDone
    \/ SkipCountry
    \/ VisitLevel
    \/ DirectFetchDone
    \/ ParentsFetchDone
    \/ ChunkFetchDone
    \/ WriteJsonOpen
    \/ WriteJsonDone
    \/ WriteGzOpen
    \/ WriteGzDone
    \/ UnlinkJson
    \/ WriteRaw
    \/ IterationDone
    \/ FinishRun

SpecPace == PaceInit /\ [][PaceNext]_vars

\* A request is issued in this step, and it is not the first of the run.
NextRequestIssued ==
    /\ Len(hist'.log) = Len(hist.log) + 1
    /\ Len(hist.log) > 0

\* C21: with delayMs > 0 the run has slept at least delayMs since its latest
\* request whenever it issues the next one, whatever the two requests are.
C21_DelayBetweenRequests ==
    [][NextRequestIssued /\ opts.delayMs > 0 => hist.slept >= opts.delayMs]_vars

\* An iteration of the level loop ends in this step.
IterationEnds == pc \in { "skipped", "written" } /\ pc' = "level"

C28_IterationStep ==
    /\ IterationEnds /\ pc = "written" =>
          /\ run.caller \in { "direct", "chunk" }
          /\ hist.visit.requested
          /\ Exists(disk.gz[hist.visit.target])
          /\ hist.slept = 0
          /\ hist'.slept = IF opts.delayMs > 0 THEN opts.delayMs ELSE 0
    /\ IterationEnds /\ pc = "skipped" =>
          /\ ~hist.visit.requested
          /\ hist'.slept = hist.slept
          /\ hist'.log = hist.log
    /\ pc \in { "w_raw" } => pc' \in { "written", "idle" }
    /\ pc = "written" => pc' \in { "level", "idle" }

\* C28: an iteration of the level loop that has fetched and written its
\* record, directly or from chunks, ends with a sleep of delayMs when
\* delayMs > 0 and without a sleep otherwise, and the next iteration starts
\* after it; an iteration the skip rule ends has issued no request and ends
\* without a sleep.
C28_SleepAfterWrittenIteration == [][C28_IterationStep]_vars

\* With a delay of 300 ms the run is at the head of the level loop after an
\* iteration that merged chunks and slept, and an earlier iteration was
\* skipped.
C28_Witness ==
    /\ pc = "level"
    /\ opts.delayMs = DefaultDelayMs
    /\ hist.slept = DefaultDelayMs
    /\ missingOnlyMode(opts)
    /\ hist.visited = { << "EE", 2 >>, << "EE", 9 >>, << "LV", 2 >>, << "LV", 9 >> }
    /\ hist.missing = { << "LV", 2 >>, << "LV", 9 >> }
    /\ Len(hist.log) > 0
    /\ Last(hist.log).query = "buildOverpassQueryForParentRelation"
    /\ disk.gz[<< "LV", 9 >>].chunked

(***************************************************************************)
(* Properties of runBackup                                                 *)
(***************************************************************************)

\* C1: after every successful write of the record of a (country, level), the
\* created_at stored on disk is the created_at stored by the first successful
\* write of that record; a later run does not replace it by its own timestamp.
C1_CreatedAtPreserved ==
    \A target \in Targets :
        (hist.firstCreated[target] # 0 /\ disk.gz[target].st = "full")
            => disk.gz[target].created_at = hist.firstCreated[target]

\* The files of the visited target are the files found when it was visited.
VisitedFilesUntouched ==
    /\ disk.json[hist.visit.target] = hist.visit.json
    /\ disk.gz[hist.visit.target] = hist.visit.gz

\* The uncompressed file found at the visit was replaced by its gzip.
VisitedFileCompressed ==
    /\ ~Exists(hist.visit.gz)
    /\ disk.gz[hist.visit.target] = gzipSync(hist.visit.json)
    /\ ~Exists(disk.json[hist.visit.target])

\* C2: in full-sweep mode, a (country, level) that has its .json or its
\* .json.gz file when the level loop visits it gets no request, no record is
\* built for it, and when the visit is over the stored record is the one found
\* at the visit, byte for byte (left in place, or moved into the .json.gz).
C2_ExistingTargetSkipped ==
    (missingOnlyMode(opts) /\ hist.visit.active /\ hist.visit.existed)
        => /\ ~hist.visit.requested
           /\ run.caller \in {"none", "skip"}
           /\ pc \notin {"fetch_direct", "fetch_parents", "fetch_chunk",
                         "w_raw", "written"}
           /\ pc \in {"skipped", "level"}
                => (VisitedFilesUntouched \/ VisitedFileCompressed)

\* A full-sweep visit that found only the uncompressed file is over.
C2_Witness ==
    /\ pc = "skipped"
    /\ missingOnlyMode(opts)
    /\ hist.visit.active
    /\ hist.visit.json.st = "full"
    /\ ~Exists(hist.visit.gz)
    /\ VisitedFileCompressed

C4_SkippedFilesAreComplete ==
    (pc = "skipped" /\ missingOnlyMode(opts))
        => /\ Exists(disk.json[Cur]) => disk.json[Cur].st = "full"
           /\ Exists(disk.gz[Cur]) => disk.gz[Cur].st = "full"


(***************************************************************************)
(* SpecSerial: consecutive fetchOverpass calls of one run, with the        *)
(* sending of a request and the settling of its promise as separate steps  *)
(***************************************************************************)

\* How many fetchOverpass calls the caller makes one after the other
MaxCalls == 2

\* The request the try block is about to send
CurrentRequest ==
    [ call |-> calls, endpoint |-> OVERPASS_ENDPOINTS[endpointIdx],
      attempt |-> attempt ]

\* controller.abort() on a fetch that was given controller.signal: the
\* request is cancelled and the promise rejects.
AfterAbort_detached(sent, request) == sent
AfterAbort(sent, request) == sent \ { request }

SerialInit == FetchStart /\ RowsOff /\ RunOff /\ ServeOff

\* fetch(endpoint, { ..., signal }) is called and fetchOverpass is suspended
\* at the await.
SendRequest ==
    /\ fetchPc = "attempt"
    /\ fetchPc' = "awaiting"
    /\ inflight' = inflight \cup { CurrentRequest }
    /\ UNCHANGED << endpointIdx, attempt, lastError, lastResponse, requests,
                    sleeps, fetchResult, calls >>
    /\ UNCHANGED << rowVars, runVars, serveVars >>

\* The response and its body arrive: the timeout is cleared and the try block
\* continues with the status and the text.
ReceiveResponse ==
    /\ fetchPc = "awaiting"
    /\ \E r \in Responses : Observe(r)
    /\ inflight' = inflight \ { CurrentRequest }
    /\ UNCHANGED << endpointIdx, attempt, calls >>
    /\ UNCHANGED << rowVars, runVars, serveVars >>

\* The connection fails or the body cannot be read: the awaited promise
\* rejects and the catch block runs.
RequestFails ==
    /\ fetchPc = "awaiting"
    /\ Observe(FetchThrown)
    /\ inflight' = inflight \ { CurrentRequest }
    /\ UNCHANGED << endpointIdx, attempt, calls >>
    /\ UNCHANGED << rowVars, runVars, serveVars >>

\* FETCH_TIMEOUT_MS pass before the fetch settles: the timer calls
\* controller.abort() and the catch block runs.
AbortOnTimeout ==
    /\ fetchPc = "awaiting"
    /\ Observe(FetchThrown)
    /\ inflight' = AfterAbort(inflight, CurrentRequest)
    /\ UNCHANGED << endpointIdx, attempt, calls >>
    /\ UNCHANGED << rowVars, runVars, serveVars >>

\* The caller received the result of one call and awaits the next one (the
\* chunk loop of runBackup); a thrown call ends the loop.
NextCall ==
    /\ fetchPc = "returned"
    /\ calls < MaxCalls
    /\ calls' = calls + 1
    /\ fetchPc' = "attempt"
    /\ endpointIdx' = 1
    /\ attempt' = 1
    /\ lastError' = NoError
    /\ lastResponse' = NoResponse
    /\ requests' = << >>
    /\ sleeps' = << >>
    /\ fetchResult' = NoResult
    /\ UNCHANGED inflight
    /\ UNCHANGED << rowVars, runVars, serveVars >>

SerialNext ==
    \/ SendRequest
    \/ ReceiveResponse
    \/ RequestFails
    \/ AbortOnTimeout
    \/ FetchBackoffDone
    \/ NextCall

SpecSerial == SerialInit /\ [][SerialNext]_vars

\* C22: at every point at most one request is outstanding; none is
\* outstanding while fetchOverpass sleeps its backoff, after it returned or
\* threw, or before it sends the next request, and the outstanding request is
\* the one of the call, endpoint and attempt in progress, so the requests of
\* different calls (countries, levels, chunks) never overlap.
C22_OneOutstandingRequest ==
    /\ Cardinality(inflight) <= 1
    /\ fetchPc # "awaiting" => inflight = {}
    /\ fetchPc = "awaiting" => inflight = { CurrentRequest }

\* A request of the second call is outstanding, sent after a timeout or a
\* failure of the same call and the backoff sleep that followed it.
C22_Witness ==
    /\ calls = MaxCalls
    /\ fetchPc = "awaiting"
    /\ Len(sleeps) > 0
    /\ Last(requests).outcome = "error"
    /\ inflight = { CurrentRequest }


(***************************************************************************)
(* SpecServe: the request handler of runServer, one action per route, over *)
(* every data directory of .json and .json.gz files                        *)
(***************************************************************************)

\* The record a backup run stored for a target, and countries.json
StoredRecord == BackupJson(1, 1, FALSE)

StoredCountries ==
    [ st |-> "full", created_at |-> 1, refreshed_at |-> 1,
      codes |-> << "EE", "LV" >> ]

\* The data directories: every target with or without its .json and with or
\* without its .json.gz, countries.json present or not.
ServeDisks ==
    { [ EmptyDisk EXCEPT !.dir = TRUE, !.json = j, !.gz = g, !.countries = c ] :
        j \in [ Targets -> { NoFile, StoredRecord } ],
        g \in [ Targets -> { NoFile, gzipSync(StoredRecord) } ],
        c \in { NoCountriesFile, StoredCountries } }

\* JSON.parse of the text of a file (lib/fs.ts): the payload it holds.
readJsonFile(file) ==
    [ created_at |-> file.created_at, refreshed_at |-> file.refreshed_at,
      chunked |-> file.chunked ]

\* ensureJsonFromGzip: whether the .json can be read afterwards, and the
\* directory it leaves.
ensureJsonFromGzip(d, target) ==
    IF Exists(d.json[target]) THEN [ ok |-> TRUE, disk |-> d ]
    ELSE IF ~Exists(d.gz[target]) THEN [ ok |-> FALSE, disk |-> d ]
    ELSE [ ok |-> TRUE,
           disk |-> [ d EXCEPT !.json[target] = gunzipSync(d.gz[target]) ] ]

\* listBackupFiles: the targets that have a .json or a .json.gz file.
listBackupFiles(d) ==
    { t \in Targets : Exists(d.json[t]) \/ Exists(d.gz[t]) }

\* The country and level parameters a request can carry; Null is a missing
\* country parameter and NoNumber a missing or non-numeric level.
ServeCountryArgs == { "EE", "LV", "ee", Null }

ServeLevelArgs == LevelsUniverse \cup { NoNumber }

ServeInit ==
    /\ pc = "off"
    /\ opts = NoOptions
    /\ now = 0
    /\ disk \in ServeDisks
    /\ run = RunIdle
    /\ hist = HistInit
    /\ ServeOff
    /\ FetchOff
    /\ RowsOff

\* The response of the two admin-areas routes for a target.
Answer(route, target) ==
    LET e == ensureJsonFromGzip(disk, target)
    IN  /\ disk' = e.disk
        /\ served' = [ route |-> route, country |-> target[1],
                       level |-> target[2],
                       status |-> IF e.ok THEN 200 ELSE 404,
                       body |-> IF e.ok THEN readJsonFile(e.disk.json[target])
                                ELSE NoPayload,
                       count |-> 0 ]

\* GET /health
ServeHealth ==
    /\ served' = [ NoServed EXCEPT !.route = "/health", !.status = 200 ]
    /\ UNCHANGED << pc, opts, now, disk, run, hist >>
    /\ UNCHANGED << fetchVars, rowVars >>

\* GET /backups: every listed file goes through toIndexItem, which calls
\* ensureJsonFromGzip before it reads the file.
ServeBackups ==
    /\ disk' = [ disk EXCEPT !.json =
                   [ t \in Targets |->
                       IF t \in listBackupFiles(disk)
                       THEN ensureJsonFromGzip(disk, t).disk.json[t]
                       ELSE disk.json[t] ] ]
    /\ served' = [ NoServed EXCEPT
                     !.route = "/backups", !.status = 200,
                     !.count = Cardinality(listBackupFiles(disk))
                               + IF Exists(disk.countries) THEN 1 ELSE 0 ]
    /\ UNCHANGED << pc, opts, now, run, hist >>
    /\ UNCHANGED << fetchVars, rowVars >>

\* GET /countries
ServeCountries ==
    /\ served' = [ NoServed EXCEPT
                     !.route = "/countries",
                     !.status = IF Exists(disk.countries) THEN 200 ELSE 404,
                     !.count = Len(disk.countries.codes) ]
    /\ UNCHANGED << pc, opts, now, disk, run, hist >>
    /\ UNCHANGED << fetchVars, rowVars >>

\* GET /admin-areas?country=..&level=..
ServeAdminAreasQuery ==
    /\ \E countryArg \in ServeCountryArgs, level \in ServeLevelArgs :
         LET country == IF countryArg = Null THEN Null
                        ELSE ToUpperCase(countryArg)
         IN  IF country = Null \/ level = NoNumber
             THEN /\ served' = [ NoServed EXCEPT !.route = "/admin-areas",
                                                 !.status = 400 ]
                  /\ disk' = disk
             ELSE Answer("/admin-areas", << country, level >>)
    /\ UNCHANGED << pc, opts, now, run, hist >>
    /\ UNCHANGED << fetchVars, rowVars >>

\* GET /admin-areas/<CC>/<level>
ServeAdminAreasRoute ==
    /\ \E countryArg \in ServeCountryArgs \ { Null }, level \in LevelsUniverse :
         Answer("/admin-areas/", << ToUpperCase(countryArg), level >>)
    /\ UNCHANGED << pc, opts, now, run, hist >>
    /\ UNCHANGED << fetchVars, rowVars >>

\* Any other path
ServeNotFound ==
    /\ served' = [ NoServed EXCEPT !.route = "other", !.status = 404 ]
    /\ UNCHANGED << pc, opts, now, disk, run, hist >>
    /\ UNCHANGED << fetchVars, rowVars >>

ServeNext ==
    \/ ServeHealth
    \/ ServeBackups
    \/ ServeCountries
    \/ ServeAdminAreasQuery
    \/ ServeAdminAreasRoute
    \/ ServeNotFound

SpecServe == ServeInit /\ [][ServeNext]_vars

\* An admin-areas request for a target has just been answered.
AreaAnswered ==
    /\ served'.route \in { "/admin-areas", "/admin-areas/" }
    /\ served'.status # 400

ServedTarget == << served'.country, served'.level >>

C33_ServeStep ==
    /\ disk' = disk
    /\ ( /\ AreaAnswered
         /\ ~Exists(disk.json[ServedTarget])
         /\ Exists(disk.gz[ServedTarget]) ) =>
          /\ served'.status = 200
          /\ served'.body = readJsonFile(gunzipSync(disk.gz[ServedTarget]))
    /\ ( /\ AreaAnswered
         /\ ~Exists(disk.json[ServedTarget])
         /\ ~Exists(disk.gz[ServedTarget]) ) =>
          served'.status = 404

=============================================================================
